---- MODULE Spec2Model ----
(***************************************************************************)
(* Risk engine, live trading cycle and replay driver of hyperkaehler.      *)
(*                                                                         *)
(* Numbers.  The program computes in float64.  The model computes in exact *)
(* rationals: a fraction of the configuration or of a signal (0.05, 0.50)  *)
(* is an integer count of 1/PctDen, an amount of mana is an integer count  *)
(* of 1/MoneyDen mana ("ticks"), and every intermediate value is a pair    *)
(* <<numerator, denominator>> with a positive denominator.  math.Floor     *)
(* rounds down to a whole mana, i.e. to a multiple of MoneyDen ticks.      *)
(***************************************************************************)
EXTENDS Integers, Sequences, FiniteSets, TLC

PctDen == 100
MoneyDen == 2

\* longest signal batch handed to SizeSignals
MaxBatch == 2

(***************************************************************************)
(* Exact rational arithmetic.                                              *)
(***************************************************************************)
Abs(x) == IF x < 0 THEN -x ELSE x

RECURSIVE Gcd(_, _)
Gcd(a, b) == IF b = 0 THEN a ELSE Gcd(b, a % b)

Rat(n, d) ==
    LET g == Gcd(Abs(n), d)
    IN  <<n \div g, d \div g>>

Whole(n) == <<n, 1>>
Pct(n) == Rat(n, PctDen)
RMul(a, b) == Rat(a[1] * b[1], a[2] * b[2])
RSub(a, b) == Rat(a[1] * b[2] - b[1] * a[2], a[2] * b[2])
\* a / b for b > 0
RDiv(a, b) == Rat(a[1] * b[2], a[2] * b[1])
RLt(a, b) == a[1] * b[2] < b[1] * a[2]
RLe(a, b) == a[1] * b[2] <= b[1] * a[2]
RGt(a, b) == RLt(b, a)
RGe(a, b) == RLe(b, a)

\* math.Floor of an amount given in ticks: the whole mana below it, in ticks
Floor(a) == (a[1] \div (a[2] * MoneyDen)) * MoneyDen

(***************************************************************************)
(* Risk configuration, markets and signals.                                *)
(***************************************************************************)
Markets == {"market-1", "market-2"}

\* config.RiskConfig: the defaults, with min_bet_amount and
\* max_market_exposure_pct as the configuration file may set them
RiskConfigs ==
    [KellyFraction : {25},
     MaxPositionPct : {5},
     MaxMarketExposurePct : {0, 10},
     MaxTotalExposure : {50},
     MaxDrawdownPct : {20},
     MinBetAmount : {0, MoneyDen},
     MinEdge : {5}]

\* config.DefaultConfig().Risk
DefaultRiskConfig ==
    [KellyFraction |-> 25, MaxPositionPct |-> 5, MaxMarketExposurePct |-> 10,
     MaxTotalExposure |-> 50, MaxDrawdownPct |-> 20, MinBetAmount |-> MoneyDen,
     MinEdge |-> 5]

Sig(mkt, out, conf, prob, edge) ==
    [MarketID |-> mkt, Outcome |-> out, Confidence |-> conf,
     MarketProb |-> prob, Edge |-> edge]

\* strategy.Signal values the generators can emit
Signals ==
    {Sig("market-1", "YES", 90, 50, 40),
     Sig("market-2", "YES", 90, 50, 40),
     Sig("market-1", "YES", 55, 50, 5),
     Sig("market-1", "YES", 52, 50, 2),
     Sig("market-2", "NO", 90, 20, 10),
     Sig("market-2", "YES", 99, 100, 40),
     Sig("market-1", "NO", 40, 50, 10)}

Batches == UNION {[1..n -> Signals] : n \in 0..MaxBatch}

(***************************************************************************)
(* risk.Manager                                                            *)
(***************************************************************************)
NewManager(pf) ==
    [portfolio |-> pf,
     totalExposure |-> 0,
     marketExposure |-> [k \in Markets |-> 0],
     peakBalance |-> 0]

\* the peak set to the current total value, whether higher or lower
UpdatePeak_Follow(m) == m.portfolio.TotalValue

\* the high-water mark after seeing the current total value
UpdatePeak(m) ==
    IF m.portfolio.TotalValue > m.peakBalance
    THEN m.portfolio.TotalValue
    ELSE m.peakBalance

\* drawdown compared with > in place of >=
InDrawdown_Strict(c, m, peak) ==
    /\ peak > 0
    /\ RGt(Rat(peak - m.portfolio.TotalValue, peak), Pct(c.MaxDrawdownPct))

InDrawdown(c, m, peak) ==
    /\ peak > 0
    /\ RGe(Rat(peak - m.portfolio.TotalValue, peak), Pct(c.MaxDrawdownPct))

\* exposure compared with > in place of >=
AtExposureLimit_Strict(c, m) ==
    RGt(Rat(m.totalExposure, m.portfolio.TotalValue), Pct(c.MaxTotalExposure))

AtExposureLimit(c, m) ==
    RGe(Rat(m.totalExposure, m.portfolio.TotalValue), Pct(c.MaxTotalExposure))

\* CanTrade: the verdict and the manager it leaves (the peak is updated)
CanTrade(c, m) ==
    IF m.portfolio.TotalValue <= 0
    THEN [ok |-> FALSE, mgr |-> m]
    ELSE LET peak == UpdatePeak(m)
             m2 == [m EXCEPT !.peakBalance = peak]
         IN  IF InDrawdown(c, m, peak) THEN [ok |-> FALSE, mgr |-> m2]
             ELSE IF AtExposureLimit(c, m2) THEN [ok |-> FALSE, mgr |-> m2]
             ELSE [ok |-> TRUE, mgr |-> m2]

\* the implied price of the side the signal bets on
SidePrice(sig) ==
    IF sig.Outcome = "YES"
    THEN Pct(sig.MarketProb)
    ELSE RSub(Whole(1), Pct(sig.MarketProb))

PriceValid(price) == RGt(price, Whole(0)) /\ RLt(price, Whole(1))

\* net odds b = 1/price - 1
NetOdds(price) == RSub(RDiv(Whole(1), price), Whole(1))

\* f* = (b p - (1 - p)) / b
KellyOf(b, p) == RDiv(RSub(RMul(b, p), RSub(Whole(1), p)), b)

MaxPosition(c, m) == RMul(Pct(c.MaxPositionPct), Whole(m.portfolio.TotalValue))

RemainingExposure(c, m) ==
    RSub(RMul(Pct(c.MaxTotalExposure), Whole(m.portfolio.TotalValue)),
         Whole(m.totalExposure))

CapAt(amount, limit) == IF RGt(amount, limit) THEN limit ELSE amount

\* the position cap left out
CapAtMaxPosition_Uncapped(c, m, amount) == amount

CapAtMaxPosition(c, m, amount) == CapAt(amount, MaxPosition(c, m))

CapAtRemainingExposure(c, m, amount) == CapAt(amount, RemainingExposure(c, m))

CapAtBalance(m, amount) == CapAt(amount, Whole(m.portfolio.Balance))

\* the amount of a signal that passed the odds and Kelly checks
KellyAmount(c, m, kelly) ==
    LET fraction == RMul(kelly, Pct(c.KellyFraction))
        raw == RMul(fraction, Whole(m.portfolio.Balance))
        capped == CapAtBalance(m,
                    CapAtRemainingExposure(c, m,
                      CapAtMaxPosition(c, m, raw)))
        amount == Floor(capped)
    IN  IF amount < c.MinBetAmount THEN 0 ELSE amount

sizePosition(c, m, sig) ==
    IF sig.Edge < c.MinEdge THEN 0
    ELSE LET price == SidePrice(sig)
         IN  IF ~PriceValid(price) THEN 0
             ELSE LET b == NetOdds(price)
                  IN  IF RLe(b, Whole(0)) THEN 0
                      ELSE LET kelly == KellyOf(b, Pct(sig.Confidence))
                           IN  IF RLe(kelly, Whole(0)) THEN 0
                               ELSE KellyAmount(c, m, kelly)

MaxMarketExposure(c, m) ==
    RMul(Pct(c.MaxMarketExposurePct), Whole(m.portfolio.TotalValue))

\* the exposure given earlier in the same pass forgotten
ExistingExposure_PersistedOnly(m, cycle, mkt) == m.marketExposure[mkt]

\* what this pass gave to the other market counted against this one too
ExistingExposure_AllMarkets(m, cycle, mkt) ==
    LET other == CHOOSE k \in Markets : k # mkt
    IN  m.marketExposure[mkt] + cycle[mkt] + cycle[other]

\* persisted exposure of the market plus what this pass already gave it
ExistingExposure(m, cycle, mkt) == m.marketExposure[mkt] + cycle[mkt]

MarketRemaining(c, m, cycle, mkt) ==
    RSub(MaxMarketExposure(c, m), Whole(ExistingExposure(m, cycle, mkt)))

\* the room rounded up (math.Ceil) in place of down
CapAtMarketRemaining_Ceil(amount, remaining) ==
    IF RGt(Whole(amount), remaining)
    THEN IF Whole(Floor(remaining)) = remaining
         THEN Floor(remaining)
         ELSE Floor(remaining) + MoneyDen
    ELSE amount

CapAtMarketRemaining(amount, remaining) ==
    IF RGt(Whole(amount), remaining) THEN Floor(remaining) ELSE amount

Approved(c, amount) == amount >= c.MinBetAmount

\* the market counted as full only when over its cap (< in place of <=)
NoRoom_Strict(remaining) == RLt(remaining, Whole(0))

\* if remaining <= 0: the market has no room left under its cap
NoRoom(remaining) == RLe(remaining, Whole(0))

\* one iteration of the sizing loop: acc = [cycle, sized]
SizeOne(c, m, acc, sig) ==
    LET amount == sizePosition(c, m, sig)
        capOn == c.MaxMarketExposurePct > 0
        remaining == MarketRemaining(c, m, acc.cycle, sig.MarketID)
    IN  IF capOn /\ NoRoom(remaining) THEN acc
        ELSE LET final == IF capOn THEN CapAtMarketRemaining(amount, remaining)
                          ELSE amount
             IN  IF Approved(c, final)
                 THEN [cycle |-> [acc.cycle EXCEPT ![sig.MarketID] = @ + final],
                       sized |-> Append(acc.sized, [Signal |-> sig, Amount |-> final])]
                 ELSE acc

\* the loop from signal i on; before signal i the loop has sized at most
\* i - 1 signals, so the second test never stops it: it makes each
\* iteration's result a value before the next iteration starts
RECURSIVE SizeLoop(_, _, _, _, _)
SizeLoop(c, m, sigs, i, acc) ==
    IF i > Len(sigs) \/ Len(acc.sized) >= i THEN acc
    ELSE SizeLoop(c, m, sigs, i + 1, SizeOne(c, m, acc, sigs[i]))

\* the CanTrade verdict ignored
SizeSignals_NoGate(c, m, sigs) ==
    LET gate == CanTrade(c, m)
    IN  [sized |-> SizeLoop(c, gate.mgr, sigs, 1,
                     [cycle |-> [k \in Markets |-> 0], sized |-> <<>>]).sized,
         mgr |-> gate.mgr]

\* SizeSignals: the sized signals and the manager it leaves
SizeSignals(c, m, sigs) ==
    LET gate == CanTrade(c, m)
    IN  IF ~gate.ok THEN [sized |-> <<>>, mgr |-> gate.mgr]
        ELSE [sized |-> SizeLoop(c, gate.mgr, sigs, 1,
                          [cycle |-> [k \in Markets |-> 0], sized |-> <<>>]).sized,
              mgr |-> gate.mgr]

\* the market's own entry left as it was
RecordTrade_TotalOnly(m, mkt, amount) ==
    [m EXCEPT !.totalExposure = @ + amount]

RecordTrade(m, mkt, amount) ==
    [m EXCEPT !.totalExposure = @ + amount,
              !.marketExposure[mkt] = @ + amount]

\* the total exposure left as the trades recorded so far made it
Refresh_KeepExposure(m) == [m EXCEPT !.peakBalance = UpdatePeak(m)]

Refresh(m) ==
    [m EXCEPT !.peakBalance = UpdatePeak(m),
              !.totalExposure = m.portfolio.InvestmentValue]

SetExposure(m, exposure) == [m EXCEPT !.totalExposure = exposure]

SetMarketExposure(m, exposure) == [m EXCEPT !.marketExposure = exposure]

(***************************************************************************)
(* risk.Portfolio                                                          *)
(***************************************************************************)
\* <<balance, investment value>> pairs the provider can report, in ticks
ProviderAccounts == {<<-2, 0>>, <<0, 0>>, <<160, 0>>, <<84, 60>>, <<128, 0>>}

\* Portfolio.Refresh with both provider calls answered
PortfolioOf(acct) ==
    [Balance |-> acct[1],
     InvestmentValue |-> acct[2],
     TotalValue |-> acct[1] + acct[2]]

\* total exposures a caller sets, and per-market exposures the ledger holds
Exposures == {0, 75, 80}

LedgerExposures ==
    {[k \in Markets |-> IF k = "market-1" THEN e ELSE 0] : e \in {0, 10, 16}}

(***************************************************************************)
(* The risk engine driven through its methods.  signals, sized and verdict *)
(* are the caller's locals of the call in progress; pre is the manager as  *)
(* the call found it.                                                      *)
(***************************************************************************)
VARIABLES cfg, mgr, pc, signals, sized, verdict, pre

(***************************************************************************)
(* The replay driver beside the live loop: replay is the Runner's manager, *)
(* replaySized its sized signals, account the provider's <<balance,        *)
(* investment value>>, ledger the unresolved amount per market in          *)
(* bot_bets, turn whose step is next and cycle the cycles both have run.   *)
(***************************************************************************)
VARIABLES replay, replaySized, account, ledger, turn, cycle

(***************************************************************************)
(* execution.Executor beside the trading cycle that calls it.  failedBets  *)
(* is the Executor's map, results the ExecutionResults of the Execute call *)
(* in progress, posts the PostBet requests the provider has received in    *)
(* this cycle with its answers, recorded the RecordTrade calls of this     *)
(* cycle.  keyHist and sideHist are the histories of the placements: per   *)
(* "marketID:answerID" key and per (market, outcome, answer), the          *)
(* transient failures in a row since the last success, and whether a       *)
(* permanent failure was answered.                                         *)
(***************************************************************************)
VARIABLES failedBets, results, posts, recorded, keyHist, sideHist

executionVars == <<failedBets, results, posts, recorded, keyHist, sideHist>>

(***************************************************************************)
(* The signal generators as the two drivers see them.  strategies is the   *)
(* registered list with each generator's enabled flag, evals what each     *)
(* generator's Evaluate returns on the markets of the current cycle,       *)
(* evaluated the generators the live cycle called in call order,           *)
(* replaySignals and replayEvaluated the replay step's allSignals and      *)
(* calls.                                                                  *)
(***************************************************************************)
VARIABLES strategies, evals, evaluated, replaySignals, replayEvaluated

gatherVars == <<strategies, evals, evaluated, replaySignals, replayEvaluated>>

(***************************************************************************)
(* Scheduler.Run.  loop is where Run stands, bodies the cycle bodies in    *)
(* progress (how many of each kind, and the step the body is at), pending  *)
(* the tickers with a tick waiting in their channel, cancelled whether the *)
(* context is done, returned what Run has returned, logged the failures    *)
(* logged since the last body began.  begun, cancelledAt and ranOn are     *)
(* histories: a cycle body has started; the step a body was at when the    *)
(* cancellation arrived; that body has since run to its return.            *)
(***************************************************************************)
VARIABLES loop, bodies, pending, cancelled, returned, logged,
          begun, cancelledAt, ranOn

loopVars == <<loop, bodies, pending, cancelled, returned, logged,
              begun, cancelledAt, ranOn>>

(***************************************************************************)
(* market.Cache.  markets is the map (an entry holds its fetch time and,   *)
(* as a history, the writer call that stored it), ttl the lifetime, clock  *)
(* the time, readers and writer the holders of the RWMutex, call the call  *)
(* each goroutine is in, nextCall the number of the next writer call.      *)
(***************************************************************************)
VARIABLES markets, ttl, clock, readers, writer, call, nextCall

cacheVars == <<markets, ttl, clock, readers, writer, call, nextCall>>

(***************************************************************************)
(* Arbitrage.evaluateMarket.  market is the MarketData it is given, arbCfg *)
(* the strategy's configuration, arbOut the signals it returned, arbPc     *)
(* whether it has been called.                                             *)
(***************************************************************************)
VARIABLES market, arbCfg, arbOut, arbPc

arbVars == <<market, arbCfg, arbOut, arbPc>>

(***************************************************************************)
(* The strategies over binary markets (TimeDecay, MarketMaking).           *)
(* binMarket is the MarketData under evaluation, binCfg the strategy's     *)
(* configuration, binNow the time of the call in days, binOut the signals  *)
(* returned, binPc whether Evaluate has been called.                       *)
(***************************************************************************)
VARIABLES binMarket, binCfg, binNow, binOut, binPc

binVars == <<binMarket, binCfg, binNow, binOut, binPc>>

(***************************************************************************)
(* risk.Portfolio under Refresh.  portf holds the fields of the Portfolio, *)
(* refreshErr what the last Refresh returned.                              *)
(***************************************************************************)
VARIABLES portf, refreshErr

portfolioVars == <<portf, refreshErr>>

(***************************************************************************)
(* Scanner.enrichWithResolution.  scanned is the markets slice, crowd the  *)
(* number of further candidates (whose workers are counted, not named),    *)
(* spawned how many goroutines the loop has started, mainPc where the      *)
(* caller stands, worker each named worker's position and fetched what its *)
(* fetch returned, crowdAt how many of the other workers stand at each     *)
(* position, sem and fetchResults the channels sem and results, wg the     *)
(* WaitGroup counter and closed whether results is closed.                 *)
(***************************************************************************)
VARIABLES scanned, crowd, spawned, mainPc, worker, fetched, crowdAt,
          sem, fetchResults, wg, closed

enrichVars == <<scanned, crowd, spawned, mainPc, worker, fetched, crowdAt,
                sem, fetchResults, wg, closed>>

(***************************************************************************)
(* Arbitrage.Evaluate.  evalMarkets is the markets slice it is given,      *)
(* evalCfg its configuration, evalOut what the call returned (its signals, *)
(* its counter evaluated and the markets handed to evaluateMarket, by      *)
(* position), evalPc whether it has been called.                           *)
(***************************************************************************)
VARIABLES evalMarkets, evalCfg, evalOut, evalPc

evalVars == <<evalMarkets, evalCfg, evalOut, evalPc>>

lateVars == <<evalVars>>

moreVars == <<binVars, portfolioVars, enrichVars, lateVars>>

farVars == <<loopVars, cacheVars, arbVars, moreVars>>

otherVars == <<executionVars, gatherVars, farVars>>

vars == <<cfg, mgr, pc, signals, sized, verdict, pre,
          replay, replaySized, account, ledger, turn, cycle, otherVars>>

driverVars == <<replay, replaySized, account, ledger, turn, cycle>>

NoBets == [k \in Markets |-> 0]

NewPortfolio == [Balance |-> 0, InvestmentValue |-> 0, TotalValue |-> 0]

(***************************************************************************)
(* execution.Executor                                                      *)
(***************************************************************************)
\* a signal of a multiple-choice market names the answer it bets on
OnAnswer(sig, ans) ==
    [MarketID |-> sig.MarketID, AnswerID |-> ans, Outcome |-> sig.Outcome,
     Confidence |-> sig.Confidence, MarketProb |-> sig.MarketProb,
     Edge |-> sig.Edge, IsLimitOrder |-> FALSE, LimitProb |-> Whole(0)]

\* the signals the generators hand to the cycle that executes them
OrderSignals ==
    {OnAnswer(Sig("market-1", "YES", 90, 50, 40), "a1"),
     OnAnswer(Sig("market-1", "NO", 90, 20, 10), "a1"),
     OnAnswer(Sig("market-2", "YES", 90, 50, 40), "")}

\* longest signal list of a cycle that executes
MaxOrders == 2

OrderBatches == UNION {[1..n -> OrderSignals] : n \in 0..MaxOrders}

\* key := sig.Signal.MarketID + ":" + sig.Signal.AnswerID
FailureKey(sig) == <<sig.MarketID, sig.AnswerID>>

SideKey(sig) == <<sig.MarketID, sig.Outcome, sig.AnswerID>>

FailureKeys == {FailureKey(g) : g \in OrderSignals}

SideKeys == {SideKey(g) : g \in OrderSignals}

\* an error message is the set of the phrases that occur in it
Contains(errStr, substr) == substr \in errStr

\* what PostBet answers: nil, or an error with its message
PostBetAnswers ==
    {[ok |-> TRUE, msg |-> {}],
     [ok |-> FALSE, msg |-> {"resolved"}],
     [ok |-> FALSE, msg |-> {"status 403"}],
     [ok |-> FALSE, msg |-> {"status 404"}],
     [ok |-> FALSE, msg |-> {"closed"}],
     [ok |-> FALSE, msg |-> {"timeout"}]}

IsPermanent(errStr) ==
    \/ Contains(errStr, "resolved")
    \/ Contains(errStr, "status 403")
    \/ Contains(errStr, "status 404")

\* failedBets[key] = 100: the permanent blacklist
Blacklisted == 100

\* consecutive failures from which a key is skipped
SkipAfter == 3

\* a key is skipped one failure early
ShouldSkip_Early(fb, key) == fb[key] >= SkipAfter - 1

ShouldSkip(fb, key) == fb[key] >= SkipAfter

\* math.Round(x*100) / 100: to the nearest hundredth, halves away from zero
RoundHundredths(x) ==
    IF x[1] >= 0
    THEN Rat((200 * x[1] + x[2]) \div (2 * x[2]), 100)
    ELSE Rat(0 - ((200 * (0 - x[1]) + x[2]) \div (2 * x[2])), 100)

\* prob >= 0.01 && prob <= 0.99
InLimitRange(prob) == RGe(prob, Rat(1, 100)) /\ RLe(prob, Rat(99, 100))

\* req.LimitProb, a *float64: <<>> is nil, <<prob>> points to prob
LimitProbOf(sig) ==
    IF sig.IsLimitOrder
    THEN LET prob == RoundHundredths(sig.LimitProb)
         IN  IF InLimitRange(prob) THEN <<prob>> ELSE <<>>
    ELSE <<>>

PostBetRequest(s) ==
    [Amount |-> s.Amount, ContractId |-> s.Signal.MarketID,
     Outcome |-> s.Signal.Outcome, AnswerId |-> s.Signal.AnswerID,
     LimitProb |-> LimitProbOf(s.Signal)]

\* a skip counted as one more failure of the key
executeSingle_SkipCounts(fb, s, ans) ==
    LET key == FailureKey(s.Signal)
    IN  IF ShouldSkip(fb, key)
        THEN [failedBets |-> [fb EXCEPT ![key] = @ + 1], posted |-> FALSE,
              result |-> [Signal |-> s, Success |-> FALSE,
                          Error |-> {"skipped"}]]
        ELSE IF ~ans.ok
        THEN [failedBets |-> [fb EXCEPT ![key] =
                                IF IsPermanent(ans.msg) THEN Blacklisted
                                ELSE @ + 1],
              posted |-> TRUE,
              result |-> [Signal |-> s, Success |-> FALSE, Error |-> ans.msg]]
        ELSE [failedBets |-> [fb EXCEPT ![key] = 0],
              posted |-> TRUE,
              result |-> [Signal |-> s, Success |-> TRUE, Error |-> {}]]

\* executeSingle on the sized signal s, PostBet answering ans if it is called:
\* the map it leaves, its result, and whether PostBet was called
executeSingle(fb, s, ans) ==
    LET key == FailureKey(s.Signal)
    IN  IF ShouldSkip(fb, key)
        THEN [failedBets |-> fb, posted |-> FALSE,
              result |-> [Signal |-> s, Success |-> FALSE,
                          Error |-> {"skipped"}]]
        ELSE IF ~ans.ok
        THEN [failedBets |-> [fb EXCEPT ![key] =
                                IF IsPermanent(ans.msg) THEN Blacklisted
                                ELSE @ + 1],
              posted |-> TRUE,
              result |-> [Signal |-> s, Success |-> FALSE, Error |-> ans.msg]]
        ELSE [failedBets |-> [fb EXCEPT ![key] = 0],
              posted |-> TRUE,
              result |-> [Signal |-> s, Success |-> TRUE, Error |-> {}]]

\* every result is recorded, failed or not
ShouldRecord_Always(r) == TRUE

ShouldRecord(r) == r.Success

\* the loop over the results in runTradingCycle: st = [mgr, recorded]
RECURSIVE RecordSuccessful(_, _, _)
RecordSuccessful(st, rs, i) ==
    IF i > Len(rs) THEN st
    ELSE IF ShouldRecord(rs[i])
    THEN RecordSuccessful(
           [mgr |-> RecordTrade(st.mgr, rs[i].Signal.Signal.MarketID,
                                rs[i].Signal.Amount),
            recorded |-> Append(st.recorded,
                                <<rs[i].Signal.Signal.MarketID,
                                  rs[i].Signal.Amount>>)],
           rs, i + 1)
    ELSE RecordSuccessful(st, rs, i + 1)

NoHistory == [fails |-> 0, permanent |-> FALSE]

\* the history of a key after one more placement was answered
HistoryAfter(h, ans) ==
    IF ans.ok THEN [h EXCEPT !.fails = 0]
    ELSE IF IsPermanent(ans.msg) THEN [h EXCEPT !.permanent = TRUE]
    ELSE [h EXCEPT !.fails = IF @ < SkipAfter THEN @ + 1 ELSE @]

\* NewExecutor, and no cycle has executed yet
ExecutionIdle ==
    /\ failedBets = [k \in FailureKeys |-> 0]
    /\ results = <<>>
    /\ posts = <<>>
    /\ recorded = <<>>
    /\ keyHist = [k \in FailureKeys |-> NoHistory]
    /\ sideHist = [k \in SideKeys |-> NoHistory]

(***************************************************************************)
(* strategy.Strategy as the drivers use it                                 *)
(***************************************************************************)
\* the generators in the order main registers them
Registered == <<"arbitrage", "mispricing", "timedecay", "marketmaking">>

\* the enable flags the configuration file may set
EnabledSets ==
    {{"arbitrage", "mispricing", "timedecay", "marketmaking"},
     {"arbitrage", "mispricing", "marketmaking"},
     {"timedecay"}}

StrategiesOf(on) ==
    [i \in 1..Len(Registered) |->
       [Name |-> Registered[i], Enabled |-> Registered[i] \in on]]

\* the signal each generator finds in the markets of a cycle, if any
Finds ==
    [i \in 1..Len(Registered) |->
       CASE i = 1 -> Sig("market-1", "YES", 90, 50, 40)
         [] i = 2 -> Sig("market-2", "NO", 90, 20, 10)
         [] i = 3 -> Sig("market-1", "YES", 52, 50, 2)
         [] OTHER -> Sig("market-2", "YES", 99, 100, 40)]

\* what Evaluate returns: (signals, error)
EvaluateReturns(i) ==
    {[out |-> <<>>, err |-> FALSE],
     [out |-> <<Finds[i]>>, err |-> FALSE],
     [out |-> <<Finds[i]>>, err |-> TRUE]}

Evaluations ==
    {e \in [1..Len(Registered) -> UNION {EvaluateReturns(i) : i \in 1..Len(Registered)}] :
       \A i \in 1..Len(Registered) : e[i] \in EvaluateReturns(i)}

\* a generator's signals are kept although it returned an error
KeepsSignals_DespiteError(ret) == TRUE

\* signals, err := strat.Evaluate(...); if err != nil { continue }
KeepsSignals(ret) == ~ret.err

\* the strategy loop of runTradingCycle: acc = [allSignals, evaluated]
RECURSIVE EvaluateStrategies(_, _, _, _)
EvaluateStrategies(strats, rets, i, acc) ==
    IF i > Len(strats) THEN acc
    ELSE IF ~strats[i].Enabled
    THEN EvaluateStrategies(strats, rets, i + 1, acc)
    ELSE IF ~KeepsSignals(rets[i])
    THEN EvaluateStrategies(strats, rets, i + 1,
           [acc EXCEPT !.evaluated = Append(@, i)])
    ELSE EvaluateStrategies(strats, rets, i + 1,
           [allSignals |-> acc.allSignals \o rets[i].out,
            evaluated |-> Append(acc.evaluated, i)])

\* the strategy loop of Runner.Run
RECURSIVE ReplayEvaluateStrategies(_, _, _, _)
ReplayEvaluateStrategies(strats, rets, i, acc) ==
    IF i > Len(strats) THEN acc
    ELSE IF ~strats[i].Enabled
    THEN ReplayEvaluateStrategies(strats, rets, i + 1, acc)
    ELSE IF rets[i].err
    THEN ReplayEvaluateStrategies(strats, rets, i + 1,
           [acc EXCEPT !.evaluated = Append(@, i)])
    ELSE ReplayEvaluateStrategies(strats, rets, i + 1,
           [allSignals |-> acc.allSignals \o rets[i].out,
            evaluated |-> Append(acc.evaluated, i)])

NoneEvaluated == [allSignals |-> <<>>, evaluated |-> <<>>]

\* the generators are registered and no cycle has evaluated them yet
GatherIdle ==
    /\ strategies = StrategiesOf({})
    /\ evals = <<>>
    /\ evaluated = <<>>
    /\ replaySignals = <<>>
    /\ replayEvaluated = <<>>

(***************************************************************************)
(* scheduler.Scheduler: the loop and the steps of its cycle bodies         *)
(***************************************************************************)
\* runTradingCycle, runCollection, runPerformanceReport; each has its ticker
Kinds == {"trading", "collection", "report"}

FirstStep(kind) ==
    CASE kind = "trading" -> "refresh"
      [] kind = "collection" -> "collect"
      [] OTHER -> "generate"

\* the steps a collaborator can fail
Fallible ==
    {"refresh", "exposure", "scan", "evaluate", "execute", "snapshot",
     "collect", "generate"}

\* what follows step at when it did not end the body by a failure: the next
\* step, or "return"; more says whether signals (sized signals) came out
Following(kind, at, more) ==
    CASE at = "refresh" -> "exposure"
      [] at = "exposure" -> "scan"
      [] at = "scan" -> "evaluate"
      [] at = "evaluate" -> IF more THEN "size" ELSE "return"
      [] at = "size" -> IF more THEN "execute" ELSE "return"
      [] at = "execute" -> "snapshot"
      [] OTHER -> "return"

\* a failure inside a cycle body ends Run
AfterFailure_Fatal(kind, at) == "exit"

\* a failed step is logged; the body returns to the loop or goes on
AfterFailure(kind, at) ==
    IF at \in {"refresh", "generate"} THEN "return" ELSE "continue"

\* the body is started as a goroutine and the loop selects again at once
AfterDispatch_Spawned(kind) == "select"

\* the loop calls the body and stands in the call until it returns
AfterDispatch(kind) == "call"

NoBody == [n |-> 0, at |-> "idle"]

Running == {k \in Kinds : bodies[k].n > 0}

\* Run has not been called
LoopIdle ==
    /\ loop = "start"
    /\ bodies = [k \in Kinds |-> NoBody]
    /\ pending = {}
    /\ cancelled = FALSE
    /\ returned = "no"
    /\ logged = {}
    /\ begun = FALSE
    /\ cancelledAt = "none"
    /\ ranOn = FALSE

(***************************************************************************)
(* market.Cache                                                            *)
(***************************************************************************)
Ids == {"a", "b"}

Readers == {"r1", "r2"}

Writers == {"w1", "w2"}

MaxTime == 2

MaxCalls == 2

TTLs == {0, 1}

\* the lists SetAll is called with
Lists == {<<"a", "b">>, <<"b">>}

NoEntry == [fetchedAt |-> -1, by |-> 0]

Present(entry) == entry.by # 0

NoSnap == [id \in Ids |-> NoEntry]

CallIdle ==
    [op |-> "none", id |-> "", list |-> <<>>, at |-> "idle", now |-> -1,
     i |-> 0, tag |-> 0, found |-> FALSE, ids |-> {}, snap |-> NoSnap, t |-> -1]

\* RLock is granted whatever the writer does
CanRLock_Unguarded(w, rs) == TRUE

\* sync.RWMutex: RLock is granted when no writer holds the lock
CanRLock(w, rs) == w = "none"

\* sync.RWMutex: Lock is granted when nobody holds the lock
CanLock(w, rs) == w = "none" /\ rs = {}

\* an entry aged exactly ttl is expired
GetExpired_AtTTL(entry, t, life) == t - entry.fetchedAt >= life

\* Get: time.Since(entry.fetchedAt) > c.ttl
GetExpired(entry, t, life) == t - entry.fetchedAt > life

\* All: now.Sub(entry.fetchedAt) <= c.ttl
AllKeeps(entry, t, life) == t - entry.fetchedAt <= life

\* Get's second result
GetFound(entry, t, life) == ~(~Present(entry) \/ GetExpired(entry, t, life))

\* the ids of the markets All returns
AllResult(m, t, life) ==
    {id \in Ids : Present(m[id]) /\ AllKeeps(m[id], t, life)}

\* NewCache, before any call
CacheIdle ==
    /\ markets = [id \in Ids |-> NoEntry]
    /\ ttl = 0
    /\ clock = 0
    /\ readers = {}
    /\ writer = "none"
    /\ call = <<>>
    /\ nextCall = 1

(***************************************************************************)
(* strategy.Arbitrage                                                      *)
(***************************************************************************)
RAdd(a, b) == Rat(a[1] * b[2] + b[1] * a[2], a[2] * b[2])

Hundredths(n) == Rat(n, 100)

\* AnswerData.Probability values, in hundredths
AnswerProbs == {0, 5, 30, 35, 50, 75, 100}

\* AnswerData.Resolution values
Resolutions == {"", "NO", "CANCEL"}

AnswerIDs == <<"a1", "a2", "a3">>

\* ArbitrageConfig.MinProbSumDeviation values, in hundredths
MinDeviations == {0, 10, 25}

\* the answer lists of the markets evaluateMarket is given
AnswerLists ==
    UNION {{[i \in 1..n |-> [ID |-> AnswerIDs[i],
                             Probability |-> Hundredths(ps[i]),
                             Resolution |-> rs[i]]] :
              ps \in [1..n -> AnswerProbs], rs \in [1..n -> Resolutions]} :
           n \in 2..3}

\* an answer counts when its probability is not pinned, resolved or not
IsActive_IgnoresResolution(ans) ==
    /\ RGt(ans.Probability, Rat(1, 1000))
    /\ RLt(ans.Probability, Rat(999, 1000))

\* an answer counts when it is unresolved and its probability is not pinned
IsActive(ans) ==
    /\ ans.Resolution = ""
    /\ RGt(ans.Probability, Rat(1, 1000))
    /\ RLt(ans.Probability, Rat(999, 1000))

RECURSIVE SumProbability(_)
SumProbability(answers) ==
    IF answers = <<>> THEN Whole(0)
    ELSE RAdd(answers[1].Probability, SumProbability(Tail(answers)))

\* no per-answer floor: every active answer gives a signal
EdgeTooSmall_Never(edge) == FALSE

\* if edge < 0.03 { continue }
EdgeTooSmall(edge) == RLt(edge, Rat(3, 100))

ArbSignal(id, ans, out, conf, edge, fairValue) ==
    [MarketID |-> id, AnswerID |-> ans.ID, Outcome |-> out,
     Confidence |-> conf, MarketProb |-> ans.Probability, Edge |-> edge,
     Strategy |-> "arbitrage", IsLimitOrder |-> TRUE,
     LimitProb |-> RDiv(RAdd(ans.Probability, fairValue), Whole(2))]

\* the loop over the active answers when the sum is above 1 + threshold
RECURSIVE OverpricedSignals(_, _, _)
OverpricedSignals(id, active, total) ==
    IF active = <<>> THEN <<>>
    ELSE LET ans == active[1]
             fairValue == RDiv(ans.Probability, total)
             edge == RSub(ans.Probability, fairValue)
             rest == OverpricedSignals(id, Tail(active), total)
         IN  IF EdgeTooSmall(edge) THEN rest
             ELSE <<ArbSignal(id, ans, "NO", RSub(Whole(1), fairValue), edge,
                              fairValue)>> \o rest

\* the loop over the active answers in the other branch
RECURSIVE UnderpricedSignals(_, _, _)
UnderpricedSignals(id, active, total) ==
    IF active = <<>> THEN <<>>
    ELSE LET ans == active[1]
             fairValue == RDiv(ans.Probability, total)
             edge == RSub(fairValue, ans.Probability)
             rest == UnderpricedSignals(id, Tail(active), total)
         IN  IF EdgeTooSmall(edge) THEN rest
             ELSE <<ArbSignal(id, ans, "YES", fairValue, edge, fairValue)>>
                     \o rest

evaluateMarket(c, m) ==
    LET active == SelectSeq(m.Answers, IsActive)
        total == SumProbability(active)
        deviation == RSub(total, Whole(1))
        minDev == c.MinProbSumDeviation
    IN  IF Len(active) < 2 THEN <<>>
        ELSE IF RGt(deviation, RSub(Whole(0), minDev)) /\ RLt(deviation, minDev)
        THEN <<>>
        ELSE IF RGt(deviation, minDev)
        THEN OverpricedSignals(m.ID, active, total)
        ELSE UnderpricedSignals(m.ID, active, total)

\* evaluateMarket has not been called
ArbIdle ==
    /\ market = [ID |-> "", Answers |-> <<>>]
    /\ arbCfg = [MinProbSumDeviation |-> Whole(0)]
    /\ arbOut = <<>>
    /\ arbPc = "idle"

(***************************************************************************)
(* strategy.TimeDecay                                                      *)
(***************************************************************************)
\* strings.ToLower on the words that occur with capitals
Lower(tok) ==
    CASE tok = "BY" -> "by"
      [] tok = "December" -> "december"
      [] tok = "Q2" -> "q2"
      [] tok = "Q5" -> "q5"
      [] OTHER -> tok

\* the word ends with the letters w
EndsWith(tok, w) ==
    \/ Lower(tok) = w
    \/ <<Lower(tok), w>> \in {<<"within", "in">>, <<"nearby", "by">>}

MonthNames ==
    {"january", "february", "march", "april", "may", "june", "july",
     "august", "september", "october", "november", "december"}

\* how many digits the word starts with
LeadingDigits(tok) ==
    CASE tok = "2026" -> 4
      [] tok = "100k" -> 3
      [] tok = "99" -> 2
      [] tok = "26" -> 2
      [] tok = "5th" -> 1
      [] OTHER -> 0

\* one element of a pattern against one word of the question: the pattern's
\* first word may be the end of a longer word, its digits the start of one
TokenIs(tok, cls) ==
    CASE cls[1] = "suffix" -> EndsWith(tok, cls[2])
      [] cls[1] = "word" -> Lower(tok) = cls[2]
      [] cls[1] = "month" -> Lower(tok) \in MonthNames
      [] cls[1] = "quarter" -> Lower(tok) \in {"q1", "q2", "q3", "q4"}
      [] cls[1] = "d4" -> LeadingDigits(tok) >= 4
      [] OTHER -> LeadingDigits(tok) >= 1

\* the five regular expressions, word by word
timePatterns ==
    << <<<<"suffix", "by">>, <<"month", "">>, <<"d4", "">>>>,
       <<<<"suffix", "before">>, <<"month", "">>, <<"d12", "">>>>,
       <<<<"suffix", "in">>, <<"d4", "">>>>,
       <<<<"suffix", "by">>, <<"word", "end">>, <<"word", "of">>, <<"d4", "">>>>,
       <<<<"suffix", "by">>, <<"quarter", "">>, <<"d4", "">>>> >>

\* regexp.MatchString: the pattern matches somewhere in the question
MatchString(pat, question) ==
    \E i \in 1..(Len(question) - Len(pat) + 1) :
        \A k \in 1..Len(pat) : TokenIs(question[i + k - 1], pat[k])

\* every question passes
matchesTimePattern_Any(question) == TRUE

matchesTimePattern(question) ==
    \E p \in 1..Len(timePatterns) : MatchString(timePatterns[p], question)

\* MarketData.Question values, as words
Questions ==
    {<<"will", "x", "happen", "by", "December", "2026">>,
     <<"will", "the", "price", "exceed", "100k">>,
     <<"launch", "within", "2026">>,
     <<"done", "BY", "Q5", "2026">>,
     <<"done", "by", "Q2", "2026">>,
     <<"before", "march", "5th">>,
     <<"by", "end", "of", "2026">>,
     <<"in", "99">>,
     <<"by", "December", "26">>}

\* TimeDecayConfig values: the zero value and the tests'
TimeDecayConfigs ==
    {[MinTimeElapsedFraction |-> Hundredths(0), MinEdge |-> Hundredths(0),
      MinVolume |-> 0],
     [MinTimeElapsedFraction |-> Hundredths(50), MinEdge |-> Hundredths(8),
      MinVolume |-> 50]}

BinMarket(type, resolved, prob, vol, liq, vol24, q, created, close) ==
    [ID |-> "market-1", OutcomeType |-> type, IsResolved |-> resolved,
     Probability |-> Hundredths(prob), Volume |-> vol, TotalLiquidity |-> liq,
     Volume24Hours |-> vol24, Question |-> q, CreatedTime |-> created,
     CloseTime |-> close]

\* the markets TimeDecay.Evaluate is given; times in days
TimeDecayMarkets ==
    {BinMarket(type, resolved, prob, vol, 0, 0, q, 0, close) :
        type \in {"BINARY", "MULTIPLE_CHOICE"}, resolved \in BOOLEAN,
        prob \in {40, 50, 60}, vol \in {0, 50, 200}, q \in Questions,
        close \in {0, 100}}

\* TimeDecay.evaluateMarket
timeDecayEvaluateMarket(c, m, now) ==
    LET totalDuration == m.CloseTime - m.CreatedTime
        elapsed == now - m.CreatedTime
        fraction == Rat(elapsed, totalDuration)
        capped == IF RGt(fraction, Whole(1)) THEN Whole(1) ELSE fraction
        estimatedProb ==
            RMul(m.Probability, RSub(Whole(1), RMul(capped, Rat(1, 2))))
        edge == RSub(m.Probability, estimatedProb)
    IN  IF totalDuration <= 0 THEN <<>>
        ELSE IF RLe(fraction, c.MinTimeElapsedFraction) THEN <<>>
        ELSE IF RLe(edge, c.MinEdge) THEN <<>>
        ELSE <<[MarketID |-> m.ID, AnswerID |-> "", Outcome |-> "NO",
                Confidence |-> RSub(Whole(1), estimatedProb),
                MarketProb |-> m.Probability, Edge |-> edge,
                Strategy |-> "timedecay", IsLimitOrder |-> TRUE,
                LimitProb |-> RDiv(RAdd(m.Probability, estimatedProb),
                                   Whole(2))]>>

\* TimeDecay.Evaluate on a list of one market
TimeDecayEvaluate(c, m, now) ==
    IF m.OutcomeType # "BINARY" THEN <<>>
    ELSE IF m.IsResolved THEN <<>>
    ELSE IF RGe(m.Probability, Rat(1, 2)) THEN <<>>
    ELSE IF m.Volume <= c.MinVolume THEN <<>>
    ELSE IF ~matchesTimePattern(m.Question) THEN <<>>
    ELSE timeDecayEvaluateMarket(c, m, now)

(***************************************************************************)
(* strategy.MarketMaking                                                   *)
(***************************************************************************)
\* MarketMakingConfig values: the zero value and the tests'
MarketMakingConfigs ==
    {[BaseSpread |-> Hundredths(0), MinLiquidity |-> 0, MinVolume24h |-> 0],
     [BaseSpread |-> Hundredths(4), MinLiquidity |-> 500, MinVolume24h |-> 50]}

Liquidities == {400, 600, 1000, 1500, 2000, 2500}

\* the markets MarketMaking.Evaluate is given; times in days
MarketMakingMarkets ==
    {BinMarket(type, resolved, prob, 0, liq, vol24, <<>>, 0, close) :
        type \in {"BINARY", "MULTIPLE_CHOICE"}, resolved \in BOOLEAN,
        prob \in {10, 20, 50, 80, 90}, liq \in Liquidities,
        vol24 \in {10, 100}, close \in {29, 30, 60}}

isEligible(c, m, now) ==
    IF m.OutcomeType # "BINARY" THEN FALSE
    ELSE IF m.IsResolved THEN FALSE
    ELSE IF m.TotalLiquidity < c.MinLiquidity THEN FALSE
    ELSE IF m.Volume24Hours < c.MinVolume24h THEN FALSE
    ELSE IF RLt(m.Probability, Hundredths(20))
            \/ RGt(m.Probability, Hundredths(80)) THEN FALSE
    ELSE IF m.CloseTime - now < 30 THEN FALSE
    ELSE TRUE

\* the configured spread whatever the liquidity
calculateSpread_Base(c, m) == c.BaseSpread

calculateSpread(c, m) ==
    IF m.TotalLiquidity > 2000 THEN Hundredths(2)
    ELSE IF m.TotalLiquidity > 1000 THEN Hundredths(3)
    ELSE c.BaseSpread

\* each side's confidence half a spread better than its implied price
generateSignals_Lean(m, spread) ==
    LET halfSpread == RDiv(spread, Whole(2))
        yesBuyProb == RSub(m.Probability, halfSpread)
        noBuyProb == RAdd(m.Probability, halfSpread)
    IN  <<[MarketID |-> m.ID, AnswerID |-> "", Outcome |-> "YES",
           Confidence |-> RAdd(m.Probability, halfSpread),
           MarketProb |-> m.Probability,
           Edge |-> halfSpread, Strategy |-> "marketmaking",
           IsLimitOrder |-> TRUE, LimitProb |-> yesBuyProb],
          [MarketID |-> m.ID, AnswerID |-> "", Outcome |-> "NO",
           Confidence |-> RAdd(RSub(Whole(1), m.Probability), halfSpread),
           MarketProb |-> m.Probability, Edge |-> halfSpread,
           Strategy |-> "marketmaking", IsLimitOrder |-> TRUE,
           LimitProb |-> noBuyProb]>>

generateSignals(m, spread) ==
    LET halfSpread == RDiv(spread, Whole(2))
        yesBuyProb == RSub(m.Probability, halfSpread)
        noBuyProb == RAdd(m.Probability, halfSpread)
    IN  <<[MarketID |-> m.ID, AnswerID |-> "", Outcome |-> "YES",
           Confidence |-> m.Probability, MarketProb |-> m.Probability,
           Edge |-> halfSpread, Strategy |-> "marketmaking",
           IsLimitOrder |-> TRUE, LimitProb |-> yesBuyProb],
          [MarketID |-> m.ID, AnswerID |-> "", Outcome |-> "NO",
           Confidence |-> RSub(Whole(1), m.Probability),
           MarketProb |-> m.Probability, Edge |-> halfSpread,
           Strategy |-> "marketmaking", IsLimitOrder |-> TRUE,
           LimitProb |-> noBuyProb]>>

\* MarketMaking.Evaluate on a list of one market
MarketMakingEvaluate(c, m, now) ==
    IF ~isEligible(c, m, now) THEN <<>>
    ELSE generateSignals(m, calculateSpread(c, m))

(***************************************************************************)
(* risk.Portfolio.Refresh against every answer of the provider             *)
(***************************************************************************)
\* GetAuthenticatedUser: an error, no user, or a user with a balance
UserAnswers ==
    {[err |-> TRUE, user |-> FALSE, Balance |-> 0],
     [err |-> FALSE, user |-> FALSE, Balance |-> 0]}
    \cup {[err |-> FALSE, user |-> TRUE, Balance |-> b] :
             b \in {0, 40, 84, 128, 160}}

\* GetUserPortfolio: an error, no portfolio, or a portfolio
PortfolioAnswers ==
    {[err |-> TRUE, portfolio |-> FALSE, InvestmentValue |-> 0],
     [err |-> FALSE, portfolio |-> FALSE, InvestmentValue |-> 0]}
    \cup {[err |-> FALSE, portfolio |-> TRUE, InvestmentValue |-> v] :
             v \in {0, 16, 60}}

\* Refresh from the GetUserPortfolio call on
AfterPortfolio(q, ans) ==
    IF ans.err
    THEN [q EXCEPT !.InvestmentValue = 0, !.TotalValue = q.Balance]
    ELSE IF ans.portfolio
    THEN [q EXCEPT !.InvestmentValue = ans.InvestmentValue,
                   !.TotalValue = q.Balance + ans.InvestmentValue]
    ELSE q

\* Portfolio.Refresh: the fields after the call and what it returned
RefreshPortfolio(q, userAns, portfolioAns) ==
    IF userAns.err \/ ~userAns.user
    THEN [portfolio |-> q, err |-> "error"]
    ELSE [portfolio |-> AfterPortfolio([q EXCEPT !.Balance = userAns.Balance],
                                       portfolioAns),
          err |-> "nil"]

PortfolioIdle ==
    /\ portf = NewPortfolio
    /\ refreshErr = "none"

(***************************************************************************)
(* market.Scanner.enrichWithResolution                                     *)
(***************************************************************************)
\* sem := make(chan struct{}, 10)
MaxConcurrent == 10

\* the most candidates beside the named ones
MaxCrowd == 9

\* indices of the named markets in the slice; the last is no candidate
Named == {1, 2, 3}

ScanAnswer(id, prob, res, text) ==
    [ID |-> id, Probability |-> Hundredths(prob), Resolution |-> res,
     Text |-> text]

\* the slice as the scan built it
ScannedMarkets ==
    [i \in Named |->
        CASE i = 1 -> [ID |-> "market-1", TotalLiquidity |-> 100,
                       Answers |-> <<ScanAnswer("a1", 50, "", "one"),
                                     ScanAnswer("a2", 45, "", "")>>]
          [] i = 2 -> [ID |-> "market-2", TotalLiquidity |-> 60,
                       Answers |-> <<ScanAnswer("a1", 30, "", ""),
                                     ScanAnswer("a2", 30, "", ""),
                                     ScanAnswer("a3", 100, "", "")>>]
          [] OTHER -> [ID |-> "market-3", TotalLiquidity |-> 40,
                       Answers |-> <<ScanAnswer("a1", 50, "", ""),
                                     ScanAnswer("a2", 50, "", "")>>]]

\* the candidate test of the first loop
IsCandidate(m) ==
    /\ ~(m.TotalLiquidity < 50)
    /\ Cardinality({j \in 1..Len(m.Answers) :
                       /\ RGt(m.Answers[j].Probability, Rat(1, 1000))
                       /\ RLt(m.Answers[j].Probability, Rat(999, 1000))}) >= 2

NamedCandidates == {i \in Named : IsCandidate(ScannedMarkets[i])}

\* what GetMarketByID can return for a market id: an error, no market, or
\* the market's answers
NoFetch == [kind |-> "none", answers |-> <<>>]

FetchAnswers(id) ==
    {[kind |-> "err", answers |-> <<>>],
     [kind |-> "nil", answers |-> <<>>],
     [kind |-> "market",
      answers |-> IF id = "market-1"
                  THEN <<[Id |-> "a1", Resolution |-> "YES", Text |-> "uno"],
                         [Id |-> "a2", Resolution |-> "", Text |-> "due"]>>
                  ELSE <<[Id |-> "a2", Resolution |-> "CANCEL", Text |-> "zwei"],
                         [Id |-> "a9", Resolution |-> "NO", Text |-> "neun"]>>]}

\* the body of the range loop for one result: answers found by id get the
\* fetched resolution, and the fetched text when they had none
MergeAnswers(m, answers) ==
    [m EXCEPT !.Answers =
        [j \in 1..Len(m.Answers) |->
            IF \E k \in 1..Len(answers) : answers[k].Id = m.Answers[j].ID
            THEN LET a == answers[CHOOSE k \in 1..Len(answers) :
                                     /\ answers[k].Id = m.Answers[j].ID
                                     /\ \A l \in (k + 1)..Len(answers) :
                                          answers[l].Id # m.Answers[j].ID]
                 IN  [m.Answers[j] EXCEPT
                        !.Resolution = a.Resolution,
                        !.Text = IF m.Answers[j].Text = "" THEN a.Text ELSE @]
            ELSE m.Answers[j]]]

\* the result is merged into the first market of the slice
MergeTarget_First(idx) == 1

\* markets[r.idx]
MergeTarget(idx) == idx

\* the send on sem goes through whatever the channel holds
CanAcquire_Unbounded(tokens) == TRUE

\* sem <- struct{}{} goes through while the channel has room
CanAcquire(tokens) == tokens < MaxConcurrent

\* len(candidates), the capacity of results
Candidates == Cardinality(NamedCandidates) + crowd

\* the position of the named candidates in the loop over candidates: the
\* first is spawned first, the others after the crowd
SpawnTurn(i) == IF i = 1 THEN 1 ELSE crowd + i

NoCrowd == [waiting |-> 0, fetching |-> 0, exited |-> 0]

EnrichIdle ==
    /\ scanned = <<>>
    /\ crowd = 0
    /\ spawned = 0
    /\ mainPc = "idle"
    /\ worker = [i \in NamedCandidates |-> "unspawned"]
    /\ fetched = [i \in NamedCandidates |-> NoFetch]
    /\ crowdAt = NoCrowd
    /\ sem = 0
    /\ fetchResults = [named |-> {}, crowd |-> 0]
    /\ wg = 0
    /\ closed = FALSE

\* no binary strategy has been called
BinIdle ==
    /\ binMarket = BinMarket("", FALSE, 0, 0, 0, 0, <<>>, 0, 0)
    /\ binCfg = [MinVolume |-> 0]
    /\ binNow = 0
    /\ binOut = <<>>
    /\ binPc = "idle"

NoEvaluation == [signals |-> <<>>, evaluated |-> 0, called |-> <<>>]

\* Arbitrage.Evaluate has not been called
EvalIdle ==
    /\ evalMarkets = <<>>
    /\ evalCfg = [MaxMarketsPerCycle |-> 0]
    /\ evalOut = NoEvaluation
    /\ evalPc = "idle"

LateIdle == EvalIdle

MoreIdle == BinIdle /\ PortfolioIdle /\ EnrichIdle /\ LateIdle

FarIdle == LoopIdle /\ CacheIdle /\ ArbIdle /\ MoreIdle

OthersIdle == ExecutionIdle /\ GatherIdle /\ FarIdle

Init ==
    /\ OthersIdle
    /\ replay = NewManager(NewPortfolio)
    /\ replaySized = <<>>
    /\ account = <<0, 0>>
    /\ ledger = NoBets
    /\ turn = "none"
    /\ cycle = 0
    /\ cfg \in RiskConfigs
    /\ \E acct \in ProviderAccounts : mgr = NewManager(PortfolioOf(acct))
    /\ pc = "idle"
    /\ signals = <<>>
    /\ sized = <<>>
    /\ verdict = "none"
    /\ pre = mgr

Idle(m) ==
    /\ mgr' = m
    /\ pre' = m
    /\ UNCHANGED <<cfg, pc, signals, sized, verdict>>
    /\ UNCHANGED <<driverVars, otherVars>>

PortfolioRefresh ==
    /\ pc = "idle"
    /\ \E acct \in ProviderAccounts :
          Idle([mgr EXCEPT !.portfolio = PortfolioOf(acct)])

CallRefresh ==
    /\ pc = "idle"
    /\ Idle(Refresh(mgr))

CallSetExposure ==
    /\ pc = "idle"
    /\ \E e \in Exposures : Idle(SetExposure(mgr, e))

CallSetMarketExposure ==
    /\ pc = "idle"
    /\ \E f \in LedgerExposures : Idle(SetMarketExposure(mgr, f))

CallCanTrade ==
    /\ pc = "idle"
    /\ LET r == CanTrade(cfg, mgr)
       IN  /\ mgr' = r.mgr
           /\ verdict' = r.ok
    /\ pre' = mgr
    /\ pc' = "checked"
    /\ UNCHANGED <<cfg, signals, sized>>
    /\ UNCHANGED <<driverVars, otherVars>>

CallSizeSignals ==
    /\ pc = "idle"
    /\ \E batch \in Batches :
        \E r \in {SizeSignals(cfg, mgr, batch)} :
          /\ signals' = batch
          /\ sized' = r.sized
          /\ mgr' = r.mgr
    /\ verdict' = CanTrade(cfg, mgr).ok
    /\ pre' = mgr
    /\ pc' = "sized"
    /\ UNCHANGED cfg
    /\ UNCHANGED <<driverVars, otherVars>>

RECURSIVE RecordAll(_, _, _)
RecordAll(m, ss, i) ==
    IF i > Len(ss) THEN m
    ELSE RecordAll(RecordTrade(m, ss[i].Signal.MarketID, ss[i].Amount), ss, i + 1)

\* the caller records every sized signal as a trade
RecordTrades ==
    /\ pc = "sized"
    /\ mgr' = RecordAll(mgr, sized, 1)
    /\ pc' = "recorded"
    /\ UNCHANGED <<cfg, signals, sized, verdict, pre>>
    /\ UNCHANGED <<driverVars, otherVars>>

\* the caller drops the verdict of CanTrade
Return ==
    /\ pc = "checked"
    /\ pc' = "idle"
    /\ verdict' = "none"
    /\ pre' = mgr
    /\ UNCHANGED <<cfg, mgr, signals, sized>>
    /\ UNCHANGED <<driverVars, otherVars>>

\* the cycle ends (its locals go out of scope) and the next one opens as the
\* trading cycle does: Portfolio.Refresh, Manager.Refresh, loadMarketExposure
NextCycle ==
    /\ pc = "recorded"
    /\ \E acct \in ProviderAccounts, f \in LedgerExposures :
          LET m == SetMarketExposure(
                     Refresh([mgr EXCEPT !.portfolio = PortfolioOf(acct)]), f)
          IN  /\ mgr' = m
              /\ pre' = m
    /\ pc' = "idle"
    /\ signals' = <<>>
    /\ sized' = <<>>
    /\ verdict' = "none"
    /\ UNCHANGED cfg
    /\ UNCHANGED <<driverVars, otherVars>>

Next ==
    \/ PortfolioRefresh
    \/ CallRefresh
    \/ CallSetExposure
    \/ CallSetMarketExposure
    \/ CallCanTrade
    \/ CallSizeSignals
    \/ RecordTrades
    \/ Return
    \/ NextCycle

Spec == Init /\ [][Next]_vars

(***************************************************************************)
(* The live trading cycle and the replay step, fed the same signals.       *)
(***************************************************************************)
\* cycles the live loop and the replay driver are run side by side
MaxCycles == 2

StartBalances == {160}

\* the execution sink: the sized signals at the positions in oks are placed,
\* the others fail.  A placed bet is recorded by RecordTrade, entered in the
\* ledger, and paid from the provider's balance into its investment value.
RECURSIVE Execute(_, _, _, _)
Execute(st, ss, oks, i) ==
    IF i > Len(ss) THEN st
    ELSE IF i \notin oks THEN Execute(st, ss, oks, i + 1)
    ELSE LET k == ss[i].Signal.MarketID
             a == ss[i].Amount
         IN  Execute([mgr |-> RecordTrade(st.mgr, k, a),
                      ledger |-> [st.ledger EXCEPT ![k] = @ + a],
                      account |-> <<st.account[1] - a, st.account[2] + a>>],
                     ss, oks, i + 1)

InitDrivers ==
    /\ OthersIdle
    /\ cfg \in RiskConfigs
    /\ mgr = NewManager(NewPortfolio)
    /\ pc = "none"
    /\ signals = <<>>
    /\ sized = <<>>
    /\ verdict = "none"
    /\ pre = mgr
    /\ \E b \in StartBalances :
          /\ account = <<b, 0>>
          /\ replay = NewManager([Balance |-> b, InvestmentValue |-> 0,
                                   TotalValue |-> b])
    /\ replaySized = <<>>
    /\ ledger = NoBets
    /\ turn = "live"
    /\ cycle = 0

\* Scheduler.runTradingCycle, the provider failing the portfolio refresh
LiveRefreshFails ==
    /\ turn = "live"
    /\ UNCHANGED vars

\* Scheduler.runTradingCycle from the refresh on, the portfolio refresh and
\* the ledger query answered and the generators having returned allSignals:
\* refresh, reconcile, size, execute, record the placed bets
TradingCycleOn(allSignals) ==
    /\ \E m \in {SetMarketExposure(
                     Refresh([mgr EXCEPT !.portfolio = PortfolioOf(account)]),
                     ledger)} :
        \E r \in {IF allSignals = <<>> THEN [sized |-> <<>>, mgr |-> m]
                   ELSE SizeSignals(cfg, m, allSignals)} :
        \E oks \in SUBSET (1..Len(r.sized)) :
        \E st \in {Execute([mgr |-> r.mgr, ledger |-> ledger,
                            account |-> account], r.sized, oks, 1)} :
          /\ signals' = allSignals
          /\ sized' = r.sized
          /\ mgr' = st.mgr
          /\ ledger' = st.ledger
          /\ account' = st.account
    /\ turn' = "replay"
    /\ UNCHANGED <<cfg, pc, verdict, pre, replay, replaySized, cycle>>

\* Scheduler.runTradingCycle on the signals of some cycle
LiveCycle ==
    /\ turn = "live"
    /\ cycle < MaxCycles
    /\ \E batch \in Batches : TradingCycleOn(batch)
    /\ UNCHANGED otherVars

\* Runner.recordBacktestBet for each sized signal: the INSERT INTO bot_bets
\* of the signals at the positions in stored succeeds, the others fail and
\* are logged.  A row is inserted with resolved at its default 0
RECURSIVE recordBacktestBets(_, _, _, _)
recordBacktestBets(led, ss, stored, i) ==
    IF i > Len(ss) THEN led
    ELSE IF i \notin stored THEN recordBacktestBets(led, ss, stored, i + 1)
    ELSE recordBacktestBets(
             [led EXCEPT ![ss[i].Signal.MarketID] = @ + ss[i].Amount],
             ss, stored, i + 1)

\* the body of Runner.Run's loop from riskMgr.Refresh on
ReplayTimestamp(allSignals) ==
    \E r \in {SizeSignals(cfg, Refresh(replay), allSignals)} :
    \E stored \in SUBSET (1..Len(r.sized)) :
      /\ replaySized' = r.sized
      /\ replay' = RecordAll(r.mgr, r.sized, 1)
      /\ ledger' = recordBacktestBets(ledger, r.sized, stored, 1)

\* one timestamp of Runner.Run, the generators having returned allSignals
ReplayStepOn(allSignals) ==
    /\ ReplayTimestamp(allSignals)
    /\ turn' = "live"
    /\ cycle' = cycle + 1
    /\ UNCHANGED <<cfg, mgr, pc, signals, sized, verdict, pre, account>>

\* one timestamp of Runner.Run, on the signals the live cycle was given
ReplayStep ==
    /\ turn = "replay"
    /\ ReplayStepOn(signals)
    /\ UNCHANGED otherVars

NextDrivers ==
    \/ LiveRefreshFails
    \/ LiveCycle
    \/ ReplayStep

SpecDrivers == InitDrivers /\ [][NextDrivers]_vars

(***************************************************************************)
(* The two drivers with their generators: each evaluates the registered    *)
(* strategies on the markets of the cycle and sizes what they return.      *)
(***************************************************************************)
InitGather ==
    /\ ExecutionIdle
    /\ FarIdle
    /\ cfg = DefaultRiskConfig
    /\ mgr = NewManager(NewPortfolio)
    /\ pc = "none"
    /\ signals = <<>>
    /\ sized = <<>>
    /\ verdict = "none"
    /\ pre = mgr
    /\ \E b \in StartBalances :
          /\ account = <<b, 0>>
          /\ replay = NewManager([Balance |-> b, InvestmentValue |-> 0,
                                   TotalValue |-> b])
    /\ replaySized = <<>>
    /\ ledger = NoBets
    /\ turn = "live"
    /\ cycle = 0
    /\ \E on \in EnabledSets : strategies = StrategiesOf(on)
    /\ evals = <<>>
    /\ evaluated = <<>>
    /\ replaySignals = <<>>
    /\ replayEvaluated = <<>>

\* Scheduler.runTradingCycle: the strategies are evaluated on the scanned
\* markets and the cycle goes on with what they returned
LiveEvaluateAndTrade ==
    /\ turn = "live"
    /\ cycle < MaxCycles
    /\ \E rets \in Evaluations :
        \E g \in {EvaluateStrategies(strategies, rets, 1, NoneEvaluated)} :
          /\ evals' = rets
          /\ evaluated' = g.evaluated
          /\ TradingCycleOn(g.allSignals)
    /\ UNCHANGED <<strategies, replaySignals, replayEvaluated, executionVars,
                   farVars>>

\* one timestamp of Runner.Run on the same markets
ReplayEvaluateAndSize ==
    /\ turn = "replay"
    /\ \E g \in {ReplayEvaluateStrategies(strategies, evals, 1, NoneEvaluated)} :
          /\ replaySignals' = g.allSignals
          /\ replayEvaluated' = g.evaluated
          /\ ReplayStepOn(g.allSignals)
    /\ UNCHANGED <<strategies, evals, evaluated, executionVars, farVars>>

NextGather ==
    \/ LiveEvaluateAndTrade
    \/ ReplayEvaluateAndSize

SpecGather == InitGather /\ [][NextGather]_vars

(***************************************************************************)
(* The trading cycle around the Executor: the cycle sizes its signals,     *)
(* Execute runs executeSingle on each sized signal in turn, and the cycle  *)
(* then records the results.                                               *)
(***************************************************************************)
InitExecution ==
    /\ ExecutionIdle
    /\ GatherIdle
    /\ FarIdle
    /\ cfg = DefaultRiskConfig
    /\ mgr = NewManager(NewPortfolio)
    /\ pc = "idle"
    /\ signals = <<>>
    /\ sized = <<>>
    /\ verdict = "none"
    /\ pre = mgr
    /\ replay = NewManager(NewPortfolio)
    /\ replaySized = <<>>
    /\ \E b \in StartBalances : account = <<b, 0>>
    /\ ledger = NoBets
    /\ turn = "none"
    /\ cycle = 0

\* runTradingCycle up to the call of Execute: refresh, reconcile, size.  The
\* provider and the ledger answer as at the start: the bets placed earlier
\* have resolved and paid back
CycleSize ==
    /\ pc = "idle"
    /\ \E batch \in OrderBatches :
        \E m \in {SetMarketExposure(
                     Refresh([mgr EXCEPT !.portfolio = PortfolioOf(account)]),
                     ledger)} :
        \E r \in {IF batch = <<>> THEN [sized |-> <<>>, mgr |-> m]
                   ELSE SizeSignals(cfg, m, batch)} :
          /\ signals' = batch
          /\ sized' = r.sized
          /\ mgr' = r.mgr
          /\ pre' = r.mgr
          /\ pc' = IF r.sized = <<>> THEN "idle" ELSE "executing"
    /\ results' = <<>>
    /\ posts' = <<>>
    /\ recorded' = <<>>
    /\ UNCHANGED <<cfg, verdict, driverVars, failedBets, keyHist, sideHist>>
    /\ UNCHANGED <<gatherVars, farVars>>

\* one iteration of Execute: executeSingle on the next sized signal
ExecuteSingle ==
    /\ pc = "executing"
    /\ Len(results) < Len(sized)
    /\ LET s == sized[Len(results) + 1]
           skip == ShouldSkip(failedBets, FailureKey(s.Signal))
       IN  \E ans \in IF skip THEN {[ok |-> TRUE, msg |-> {}]}
                      ELSE PostBetAnswers :
           \E e \in {executeSingle(failedBets, s, ans)} :
             /\ failedBets' = e.failedBets
             /\ results' = Append(results, e.result)
             /\ posts' = IF e.posted
                         THEN Append(posts, [req |-> PostBetRequest(s),
                                             ok |-> ans.ok])
                         ELSE posts
             /\ keyHist' = IF e.posted
                           THEN [keyHist EXCEPT ![FailureKey(s.Signal)] =
                                   HistoryAfter(@, ans)]
                           ELSE keyHist
             /\ sideHist' = IF e.posted
                            THEN [sideHist EXCEPT ![SideKey(s.Signal)] =
                                    HistoryAfter(@, ans)]
                            ELSE sideHist
    /\ UNCHANGED <<cfg, mgr, pc, signals, sized, verdict, pre, recorded,
                   driverVars, gatherVars, farVars>>

\* Execute has returned: the cycle records the results
CycleRecord ==
    /\ pc = "executing"
    /\ Len(results) = Len(sized)
    /\ \E st \in {RecordSuccessful([mgr |-> mgr, recorded |-> <<>>],
                                   results, 1)} :
          /\ mgr' = st.mgr
          /\ recorded' = st.recorded
    /\ pc' = "recorded"
    /\ UNCHANGED <<cfg, signals, sized, verdict, pre, driverVars,
                   failedBets, results, posts, keyHist, sideHist, gatherVars,
                   farVars>>

\* the cycle returns: its locals go out of scope; the Executor's map and
\* the Manager stay
CycleReturn ==
    /\ pc = "recorded"
    /\ pc' = "idle"
    /\ signals' = <<>>
    /\ sized' = <<>>
    /\ results' = <<>>
    /\ posts' = <<>>
    /\ recorded' = <<>>
    /\ pre' = mgr
    /\ UNCHANGED <<cfg, mgr, verdict, driverVars, failedBets, keyHist, sideHist,
                   gatherVars, farVars>>

NextExecution ==
    \/ CycleSize
    \/ ExecuteSingle
    \/ CycleRecord
    \/ CycleReturn

SpecExecution == InitExecution /\ [][NextExecution]_vars

(***************************************************************************)
(* Scheduler.Run: the initial refresh, the first trading cycle and         *)
(* collection, then the select loop over the context and the three         *)
(* tickers.  The cycle bodies run step by step; the tickers and the        *)
(* cancellation act at any time.                                           *)
(***************************************************************************)
riskVars == <<cfg, mgr, pc, signals, sized, verdict, pre>>

InitLoop ==
    /\ LoopIdle
    /\ CacheIdle
    /\ ArbIdle
    /\ MoreIdle
    /\ ExecutionIdle
    /\ GatherIdle
    /\ cfg = DefaultRiskConfig
    /\ mgr = NewManager(NewPortfolio)
    /\ pc = "none"
    /\ signals = <<>>
    /\ sized = <<>>
    /\ verdict = "none"
    /\ pre = mgr
    /\ replay = NewManager(NewPortfolio)
    /\ replaySized = <<>>
    /\ account = <<0, 0>>
    /\ ledger = NoBets
    /\ turn = "none"
    /\ cycle = 0

LoopFrame ==
    UNCHANGED <<riskVars, driverVars, executionVars, gatherVars, cacheVars,
                arbVars, moreVars>>

\* Run up to the first cycle: the initial portfolio refresh, whose failure
\* Run returns, then snapshotBankroll and the call of runTradingCycle
RunStart ==
    /\ loop = "start"
    /\ \E ok \in BOOLEAN, snapOk \in BOOLEAN :
         IF ~ok
         THEN /\ returned' = "error"
              /\ loop' = "returned"
              /\ logged' = {"initial refresh"}
              /\ UNCHANGED <<bodies, begun>>
         ELSE /\ loop' = "trade0"
              /\ bodies' = [bodies EXCEPT !["trading"] =
                              [n |-> 1, at |-> FirstStep("trading")]]
              /\ logged' = IF snapOk THEN {} ELSE {"initial snapshot"}
              /\ begun' = TRUE
              /\ UNCHANGED returned
    /\ UNCHANGED <<pending, cancelled, cancelledAt, ranOn>>
    /\ LoopFrame

\* where Run stands once the body it called has returned
LoopAfterBody == IF loop = "trade0" THEN "collect0" ELSE "select"

\* one step of a running cycle body
BodyStep(kind) ==
    /\ bodies[kind].n > 0
    /\ \E ok \in BOOLEAN, more \in BOOLEAN :
         LET at == bodies[kind].at
             failed == ~ok /\ at \in Fallible
             verdict2 == IF failed THEN AfterFailure(kind, at) ELSE "continue"
             nxt == IF verdict2 = "continue" THEN Following(kind, at, more)
                    ELSE verdict2
         IN  /\ logged' = IF failed THEN logged \cup {at} ELSE logged
             /\ IF nxt = "exit"
                THEN /\ returned' = "error"
                     /\ loop' = "returned"
                     /\ bodies' = [bodies EXCEPT ![kind] = NoBody]
                     /\ UNCHANGED ranOn
                ELSE IF nxt = "return"
                THEN /\ loop' = LoopAfterBody
                     /\ bodies' =
                          IF loop = "trade0"
                          THEN [bodies EXCEPT
                                  ![kind] = NoBody,
                                  !["collection"] =
                                     [n |-> 1, at |-> FirstStep("collection")]]
                          ELSE [bodies EXCEPT
                                  ![kind] = IF @.n = 1 THEN NoBody
                                            ELSE [@ EXCEPT !.n = @ - 1]]
                     /\ ranOn' = (ranOn \/ cancelledAt # "none")
                     /\ UNCHANGED returned
                ELSE /\ bodies' = [bodies EXCEPT ![kind].at = nxt]
                     /\ UNCHANGED <<loop, returned, ranOn>>
    /\ UNCHANGED <<pending, cancelled, begun, cancelledAt>>
    /\ LoopFrame

\* select: case <-ctx.Done()
SelectDone ==
    /\ loop = "select"
    /\ cancelled
    /\ returned' = "cancelled"
    /\ loop' = "returned"
    /\ UNCHANGED <<bodies, pending, cancelled, logged, begun, cancelledAt, ranOn>>
    /\ LoopFrame

\* the dispatch empties every ticker's channel
SelectTick_Drain(kind) ==
    /\ loop = "select"
    /\ kind \in pending
    /\ pending' = {}
    /\ bodies' = [bodies EXCEPT ![kind] =
                    [n |-> @.n + 1, at |-> FirstStep(kind)]]
    /\ loop' = AfterDispatch(kind)
    /\ logged' = {}
    /\ UNCHANGED <<cancelled, returned, begun, cancelledAt, ranOn>>
    /\ LoopFrame

\* select: case <-scanTicker.C, <-snapshotTicker.C or <-perfTicker.C
SelectTick(kind) ==
    /\ loop = "select"
    /\ kind \in pending
    /\ pending' = pending \ {kind}
    /\ bodies' = [bodies EXCEPT ![kind] =
                    [n |-> @.n + 1, at |-> FirstStep(kind)]]
    /\ loop' = AfterDispatch(kind)
    /\ logged' = {}
    /\ UNCHANGED <<cancelled, returned, begun, cancelledAt, ranOn>>
    /\ LoopFrame

\* a ticker fires: its channel holds one tick, a tick on a full channel is
\* dropped
Tick(kind) ==
    /\ loop \in {"select", "call"}
    /\ kind \notin pending
    /\ pending' = pending \cup {kind}
    /\ UNCHANGED <<loop, bodies, cancelled, returned, logged, begun,
                   cancelledAt, ranOn>>
    /\ LoopFrame

\* main's signal handler cancels the context
Cancel ==
    /\ ~cancelled
    /\ returned = "no"
    /\ cancelled' = TRUE
    /\ cancelledAt' = IF Running = {} THEN "none"
                      ELSE bodies[CHOOSE k \in Running : TRUE].at
    /\ UNCHANGED <<loop, bodies, pending, returned, logged, begun, ranOn>>
    /\ LoopFrame

NextLoop ==
    \/ RunStart
    \/ \E kind \in Kinds : BodyStep(kind)
    \/ SelectDone
    \/ \E kind \in Kinds : SelectTick(kind)
    \/ \E kind \in Kinds : Tick(kind)
    \/ Cancel

SpecLoop == InitLoop /\ [][NextLoop]_vars

(***************************************************************************)
(* The cache under concurrent callers: readers call Get and All, writers   *)
(* call Set and SetAll; every call takes the lock, acts, and releases it   *)
(* at its return.  The clock advances at any time.                         *)
(***************************************************************************)
InitCache ==
    /\ ExecutionIdle
    /\ GatherIdle
    /\ LoopIdle
    /\ ArbIdle
    /\ MoreIdle
    /\ cfg = DefaultRiskConfig
    /\ mgr = NewManager(NewPortfolio)
    /\ pc = "none"
    /\ signals = <<>>
    /\ sized = <<>>
    /\ verdict = "none"
    /\ pre = mgr
    /\ replay = NewManager(NewPortfolio)
    /\ replaySized = <<>>
    /\ account = <<0, 0>>
    /\ ledger = NoBets
    /\ turn = "none"
    /\ cycle = 0
    /\ markets = [id \in Ids |-> NoEntry]
    /\ ttl \in TTLs
    /\ clock = 0
    /\ readers = {}
    /\ writer = "none"
    /\ call = [p \in Readers \cup Writers |-> CallIdle]
    /\ nextCall = 1

CacheFrame ==
    UNCHANGED <<riskVars, driverVars, executionVars, gatherVars, loopVars,
                arbVars, moreVars>>

ClockTick ==
    /\ clock < MaxTime
    /\ clock' = clock + 1
    /\ UNCHANGED <<markets, ttl, readers, writer, call, nextCall>>
    /\ CacheFrame

\* Get(id) and All() up to c.mu.RLock()
CallRead(p) ==
    /\ call[p].at = "idle"
    /\ CanRLock(writer, readers)
    /\ readers' = readers \cup {p}
    /\ \/ \E id \in Ids :
            call' = [call EXCEPT ![p] =
                       [CallIdle EXCEPT !.op = "Get", !.id = id, !.at = "rlocked"]]
       \/ call' = [call EXCEPT ![p] =
                     [CallIdle EXCEPT !.op = "All", !.at = "rlocked"]]
    /\ UNCHANGED <<markets, ttl, clock, writer, nextCall>>
    /\ CacheFrame

\* Get: the lookup and the expiry test
GetRead(p) ==
    /\ call[p].at = "rlocked"
    /\ call[p].op = "Get"
    /\ call' = [call EXCEPT ![p] =
                  [@ EXCEPT !.found = GetFound(markets[call[p].id], clock, ttl),
                            !.snap = markets, !.t = clock, !.at = "done"]]
    /\ UNCHANGED <<markets, ttl, clock, readers, writer, nextCall>>
    /\ CacheFrame

\* All: now := time.Now() and the loop over the map
AllRead(p) ==
    /\ call[p].at = "rlocked"
    /\ call[p].op = "All"
    /\ call' = [call EXCEPT ![p] =
                  [@ EXCEPT !.ids = AllResult(markets, clock, ttl),
                            !.snap = markets, !.t = clock, !.at = "done"]]
    /\ UNCHANGED <<markets, ttl, clock, readers, writer, nextCall>>
    /\ CacheFrame

\* the deferred c.mu.RUnlock() at the return of Get and All
RUnlock(p) ==
    /\ call[p].at = "done"
    /\ p \in Readers
    /\ readers' = readers \ {p}
    /\ call' = [call EXCEPT ![p] = CallIdle]
    /\ UNCHANGED <<markets, ttl, clock, writer, nextCall>>
    /\ CacheFrame

\* Set(m) and SetAll(list) up to c.mu.Lock()
CallWrite(p) ==
    /\ call[p].at = "idle"
    /\ nextCall <= MaxCalls
    /\ CanLock(writer, readers)
    /\ writer' = p
    /\ nextCall' = nextCall + 1
    /\ \/ \E id \in Ids :
            call' = [call EXCEPT ![p] =
                       [CallIdle EXCEPT !.op = "Set", !.id = id,
                                        !.tag = nextCall, !.at = "locked"]]
       \/ \E list \in Lists :
            call' = [call EXCEPT ![p] =
                       [CallIdle EXCEPT !.op = "SetAll", !.list = list,
                                        !.tag = nextCall, !.at = "locked"]]
    /\ UNCHANGED <<markets, ttl, clock, readers>>
    /\ CacheFrame

\* Set: c.markets[m.ID] = cacheEntry{market: m, fetchedAt: time.Now()}
SetWrite(p) ==
    /\ call[p].at = "locked"
    /\ call[p].op = "Set"
    /\ markets' = [markets EXCEPT ![call[p].id] =
                     [fetchedAt |-> clock, by |-> call[p].tag]]
    /\ call' = [call EXCEPT ![p].at = "done"]
    /\ UNCHANGED <<ttl, clock, readers, writer, nextCall>>
    /\ CacheFrame

\* SetAll: now := time.Now()
SetAllNow(p) ==
    /\ call[p].at = "locked"
    /\ call[p].op = "SetAll"
    /\ call' = [call EXCEPT ![p] = [@ EXCEPT !.now = clock, !.i = 1,
                                             !.at = "writing"]]
    /\ UNCHANGED <<markets, ttl, clock, readers, writer, nextCall>>
    /\ CacheFrame

\* SetAll: one turn of the loop over the list
SetAllWrite(p) ==
    /\ call[p].at = "writing"
    /\ LET c == call[p]
       IN  /\ markets' = [markets EXCEPT ![c.list[c.i]] =
                            [fetchedAt |-> c.now, by |-> c.tag]]
           /\ call' = [call EXCEPT ![p] =
                         [@ EXCEPT !.i = c.i + 1,
                                   !.at = IF c.i = Len(c.list) THEN "done"
                                          ELSE "writing"]]
    /\ UNCHANGED <<ttl, clock, readers, writer, nextCall>>
    /\ CacheFrame

\* the deferred c.mu.Unlock() at the return of Set and SetAll
Unlock(p) ==
    /\ call[p].at = "done"
    /\ p \in Writers
    /\ writer' = "none"
    /\ call' = [call EXCEPT ![p] = CallIdle]
    /\ UNCHANGED <<markets, ttl, clock, readers, nextCall>>
    /\ CacheFrame

NextCache ==
    \/ ClockTick
    \/ \E p \in Readers : CallRead(p) \/ GetRead(p) \/ AllRead(p) \/ RUnlock(p)
    \/ \E p \in Writers :
         CallWrite(p) \/ SetWrite(p) \/ SetAllNow(p) \/ SetAllWrite(p) \/ Unlock(p)

SpecCache == InitCache /\ [][NextCache]_vars

(***************************************************************************)
(* Arbitrage.evaluateMarket on one market: the market and the threshold    *)
(* are drawn, the function is applied, and the next market is taken.       *)
(***************************************************************************)
InitArb ==
    /\ ExecutionIdle
    /\ GatherIdle
    /\ LoopIdle
    /\ CacheIdle
    /\ MoreIdle
    /\ cfg = DefaultRiskConfig
    /\ mgr = NewManager(NewPortfolio)
    /\ pc = "none"
    /\ signals = <<>>
    /\ sized = <<>>
    /\ verdict = "none"
    /\ pre = mgr
    /\ replay = NewManager(NewPortfolio)
    /\ replaySized = <<>>
    /\ account = <<0, 0>>
    /\ ledger = NoBets
    /\ turn = "none"
    /\ cycle = 0
    /\ market \in {[ID |-> "market-1", Answers |-> as] : as \in AnswerLists}
    /\ arbCfg \in {[MinProbSumDeviation |-> Hundredths(d)] : d \in MinDeviations}
    /\ arbOut = <<>>
    /\ arbPc = "given"

ArbFrame ==
    UNCHANGED <<riskVars, driverVars, executionVars, gatherVars, loopVars,
                cacheVars, moreVars>>

\* sigs := a.evaluateMarket(m)
EvaluateMarket ==
    /\ arbPc = "given"
    /\ arbOut' = evaluateMarket(arbCfg, market)
    /\ arbPc' = "evaluated"
    /\ UNCHANGED <<market, arbCfg>>
    /\ ArbFrame

\* the next market of Evaluate's loop: one answer differs
NextMarket ==
    /\ arbPc = "evaluated"
    /\ \E i \in 1..Len(market.Answers), p \in AnswerProbs, r \in Resolutions :
         market' = [market EXCEPT !.Answers[i] =
                      [@ EXCEPT !.Probability = Hundredths(p),
                                !.Resolution = r]]
    /\ arbOut' = <<>>
    /\ arbPc' = "given"
    /\ UNCHANGED arbCfg
    /\ ArbFrame

NextArb == EvaluateMarket \/ NextMarket

SpecArb == InitArb /\ [][NextArb]_vars

(***************************************************************************)
(* A component that stands alone starts from the idle state of all others. *)
(***************************************************************************)
RiskIdle ==
    /\ cfg = DefaultRiskConfig
    /\ mgr = NewManager(NewPortfolio)
    /\ pc = "none"
    /\ signals = <<>>
    /\ sized = <<>>
    /\ verdict = "none"
    /\ pre = mgr
    /\ replay = NewManager(NewPortfolio)
    /\ replaySized = <<>>
    /\ account = <<0, 0>>
    /\ ledger = NoBets
    /\ turn = "none"
    /\ cycle = 0

BaseIdle ==
    RiskIdle /\ ExecutionIdle /\ GatherIdle /\ LoopIdle /\ CacheIdle /\ ArbIdle

BaseFrame ==
    UNCHANGED <<riskVars, driverVars, executionVars, gatherVars, loopVars,
                cacheVars, arbVars>>

CoreIdle == BaseIdle /\ LateIdle

CoreFrame == BaseFrame /\ UNCHANGED lateVars

(***************************************************************************)
(* TimeDecay.Evaluate on one market: the market, the configuration and the *)
(* time are drawn, Evaluate is applied, and the next call comes later.     *)
(***************************************************************************)
BinFrame == CoreFrame /\ UNCHANGED <<portfolioVars, enrichVars>>

InitTimeDecay ==
    /\ CoreIdle
    /\ PortfolioIdle
    /\ EnrichIdle
    /\ binMarket \in TimeDecayMarkets
    /\ binCfg \in TimeDecayConfigs
    /\ binNow \in {20, 80}
    /\ binOut = <<>>
    /\ binPc = "given"

EvaluateTimeDecay ==
    /\ binPc = "given"
    /\ binOut' = TimeDecayEvaluate(binCfg, binMarket, binNow)
    /\ binPc' = "evaluated"
    /\ UNCHANGED <<binMarket, binCfg, binNow>>
    /\ BinFrame

\* the next cycle's call: time has passed, the market is the same
LaterTimeDecay ==
    /\ binPc = "evaluated"
    /\ \E later \in {80, 120} :
         /\ later > binNow
         /\ binNow' = later
    /\ binOut' = <<>>
    /\ binPc' = "given"
    /\ UNCHANGED <<binMarket, binCfg>>
    /\ BinFrame

NextTimeDecay == EvaluateTimeDecay \/ LaterTimeDecay

SpecTimeDecay == InitTimeDecay /\ [][NextTimeDecay]_vars

(***************************************************************************)
(* MarketMaking.Evaluate on one market, and again when its liquidity moved.*)
(***************************************************************************)
InitMarketMaking ==
    /\ CoreIdle
    /\ PortfolioIdle
    /\ EnrichIdle
    /\ binMarket \in MarketMakingMarkets
    /\ binCfg \in MarketMakingConfigs
    /\ binNow = 0
    /\ binOut = <<>>
    /\ binPc = "given"

EvaluateMarketMaking ==
    /\ binPc = "given"
    /\ binOut' = MarketMakingEvaluate(binCfg, binMarket, binNow)
    /\ binPc' = "evaluated"
    /\ UNCHANGED <<binMarket, binCfg, binNow>>
    /\ BinFrame

LaterMarketMaking ==
    /\ binPc = "evaluated"
    /\ \E liq \in Liquidities :
         binMarket' = [binMarket EXCEPT !.TotalLiquidity = liq]
    /\ binOut' = <<>>
    /\ binPc' = "given"
    /\ UNCHANGED <<binCfg, binNow>>
    /\ BinFrame

NextMarketMaking == EvaluateMarketMaking \/ LaterMarketMaking

SpecMarketMaking == InitMarketMaking /\ [][NextMarketMaking]_vars

(***************************************************************************)
(* Portfolio.Refresh called again and again, the provider answering each   *)
(* of its two requests in any of its ways.                                 *)
(***************************************************************************)
InitPortfolio ==
    /\ CoreIdle
    /\ BinIdle
    /\ PortfolioIdle
    /\ EnrichIdle

CallPortfolioRefresh ==
    /\ \E userAns \in UserAnswers, portfolioAns \in PortfolioAnswers :
         \E r \in {RefreshPortfolio(portf, userAns, portfolioAns)} :
            /\ portf' = r.portfolio
            /\ refreshErr' = r.err
    /\ CoreFrame
    /\ UNCHANGED <<binVars, enrichVars>>

NextPortfolio == CallPortfolioRefresh

SpecPortfolio == InitPortfolio /\ [][NextPortfolio]_vars

(***************************************************************************)
(* enrichWithResolution: the caller spawns one goroutine per candidate,    *)
(* starts the goroutine that closes results, and ranges over results; the  *)
(* workers acquire the semaphore, fetch, send and release in any           *)
(* interleaving.  A request is in flight while its worker is fetching.     *)
(***************************************************************************)
InitEnrich ==
    /\ CoreIdle
    /\ BinIdle
    /\ PortfolioIdle
    /\ scanned = ScannedMarkets
    /\ crowd \in {0, 1, MaxCrowd}
    /\ spawned = 0
    /\ mainPc = "spawn"
    /\ worker = [i \in NamedCandidates |-> "unspawned"]
    /\ fetched = [i \in NamedCandidates |-> NoFetch]
    /\ crowdAt = NoCrowd
    /\ sem = 0
    /\ fetchResults = [named |-> {}, crowd |-> 0]
    /\ wg = 0
    /\ closed = FALSE

EnrichFrame == CoreFrame /\ UNCHANGED <<binVars, portfolioVars>>

\* wg.Add(1); go func(i int) {...}(idx)
Spawn ==
    /\ mainPc = "spawn"
    /\ spawned < Candidates
    /\ spawned' = spawned + 1
    /\ wg' = wg + 1
    /\ IF \E i \in NamedCandidates : SpawnTurn(i) = spawned + 1
       THEN /\ worker' = [i \in NamedCandidates |->
                            IF SpawnTurn(i) = spawned + 1 THEN "waiting"
                            ELSE worker[i]]
            /\ UNCHANGED crowdAt
       ELSE /\ crowdAt' = [crowdAt EXCEPT !.waiting = @ + 1]
            /\ UNCHANGED worker
    /\ UNCHANGED <<scanned, crowd, mainPc, fetched, sem, fetchResults, closed>>
    /\ EnrichFrame

\* the loop over candidates is over; go func() { wg.Wait(); close(results) }()
StartRange ==
    /\ mainPc = "spawn"
    /\ spawned = Candidates
    /\ mainPc' = "range"
    /\ UNCHANGED <<scanned, crowd, spawned, worker, fetched, crowdAt, sem,
                   fetchResults, wg, closed>>
    /\ EnrichFrame

\* sem <- struct{}{}
Acquire(i) ==
    /\ worker[i] = "waiting"
    /\ CanAcquire(sem)
    /\ sem' = sem + 1
    /\ worker' = [worker EXCEPT ![i] = "fetching"]
    /\ UNCHANGED <<scanned, crowd, spawned, mainPc, fetched, crowdAt, fetchResults,
                   wg, closed>>
    /\ EnrichFrame

\* s.client.GetMarketByID(markets[i].ID) returns
FetchReturns(i) ==
    /\ worker[i] = "fetching"
    /\ \E ans \in FetchAnswers(scanned[i].ID) :
         /\ fetched' = [fetched EXCEPT ![i] = ans]
         /\ worker' = [worker EXCEPT ![i] =
                         IF ans.kind = "market" THEN "sending" ELSE "releasing"]
    /\ UNCHANGED <<scanned, crowd, spawned, mainPc, crowdAt, sem, fetchResults, wg,
                   closed>>
    /\ EnrichFrame

\* results <- fetchResult{idx: i, answers: market.Answers}
Send(i) ==
    /\ worker[i] = "sending"
    /\ Cardinality(fetchResults.named) + fetchResults.crowd < Candidates
    /\ fetchResults' = [fetchResults EXCEPT !.named = @ \cup {i}]
    /\ worker' = [worker EXCEPT ![i] = "releasing"]
    /\ UNCHANGED <<scanned, crowd, spawned, mainPc, fetched, crowdAt, sem, wg,
                   closed>>
    /\ EnrichFrame

\* the deferred <-sem and wg.Done()
Release(i) ==
    /\ worker[i] = "releasing"
    /\ sem' = sem - 1
    /\ wg' = wg - 1
    /\ worker' = [worker EXCEPT ![i] = "exited"]
    /\ UNCHANGED <<scanned, crowd, spawned, mainPc, fetched, crowdAt, fetchResults,
                   closed>>
    /\ EnrichFrame

\* one of the other workers acquires
CrowdAcquire ==
    /\ crowdAt.waiting > 0
    /\ CanAcquire(sem)
    /\ sem' = sem + 1
    /\ crowdAt' = [crowdAt EXCEPT !.waiting = @ - 1, !.fetching = @ + 1]
    /\ UNCHANGED <<scanned, crowd, spawned, mainPc, worker, fetched, fetchResults,
                   wg, closed>>
    /\ EnrichFrame

\* one of the other workers' fetch returns; it sends if it has a market,
\* releases and is done
CrowdFinish ==
    /\ crowdAt.fetching > 0
    /\ \E sends \in BOOLEAN :
         /\ sends => Cardinality(fetchResults.named) + fetchResults.crowd < Candidates
         /\ fetchResults' = [fetchResults EXCEPT !.crowd = IF sends THEN @ + 1 ELSE @]
    /\ sem' = sem - 1
    /\ wg' = wg - 1
    /\ crowdAt' = [crowdAt EXCEPT !.fetching = @ - 1, !.exited = @ + 1]
    /\ UNCHANGED <<scanned, crowd, spawned, mainPc, worker, fetched, closed>>
    /\ EnrichFrame

\* wg.Wait() returns; close(results)
CloseResults ==
    /\ mainPc = "range"
    /\ ~closed
    /\ wg = 0
    /\ closed' = TRUE
    /\ UNCHANGED <<scanned, crowd, spawned, mainPc, worker, fetched, crowdAt,
                   sem, fetchResults, wg>>
    /\ EnrichFrame

\* for r := range results: one named worker's result is merged
Merge(i) ==
    /\ mainPc = "range"
    /\ i \in fetchResults.named
    /\ fetchResults' = [fetchResults EXCEPT !.named = @ \ {i}]
    /\ scanned' = [scanned EXCEPT ![MergeTarget(i)] =
                     MergeAnswers(@, fetched[i].answers)]
    /\ UNCHANGED <<crowd, spawned, mainPc, worker, fetched, crowdAt, sem, wg,
                   closed>>
    /\ EnrichFrame

\* for r := range results: another worker's result is merged into its market
MergeCrowd ==
    /\ mainPc = "range"
    /\ fetchResults.crowd > 0
    /\ fetchResults' = [fetchResults EXCEPT !.crowd = @ - 1]
    /\ UNCHANGED <<scanned, crowd, spawned, mainPc, worker, fetched, crowdAt,
                   sem, wg, closed>>
    /\ EnrichFrame

\* the range ends on the closed, drained channel and the function returns
EnrichReturn ==
    /\ mainPc = "range"
    /\ closed
    /\ fetchResults = [named |-> {}, crowd |-> 0]
    /\ mainPc' = "returned"
    /\ UNCHANGED <<scanned, crowd, spawned, worker, fetched, crowdAt, sem,
                   fetchResults, wg, closed>>
    /\ EnrichFrame

NextEnrich ==
    \/ Spawn
    \/ StartRange
    \/ \E i \in NamedCandidates :
         Acquire(i) \/ FetchReturns(i) \/ Send(i) \/ Release(i) \/ Merge(i)
    \/ CrowdAcquire
    \/ CrowdFinish
    \/ CloseResults
    \/ MergeCrowd
    \/ EnrichReturn

SpecEnrich == InitEnrich /\ [][NextEnrich]_vars

\* every goroutine that can take a step eventually takes one, and every
\* fetch returns
SpecEnrichLive == SpecEnrich /\ WF_vars(NextEnrich)

(***************************************************************************)
(* Properties of the risk engine.                                          *)
(***************************************************************************)
RECURSIVE SumAmounts(_)
SumAmounts(ss) ==
    IF ss = <<>> THEN 0 ELSE Head(ss).Amount + SumAmounts(Tail(ss))

SizedOn(ss, k) == SelectSeq(ss, LAMBDA e : e.Signal.MarketID = k)
SizedOff(ss, k) == SelectSeq(ss, LAMBDA e : e.Signal.MarketID # k)
SignalsOn(sigs, k) == SelectSeq(sigs, LAMBDA g : g.MarketID = k)
SignalsOff(sigs, k) == SelectSeq(sigs, LAMBDA g : g.MarketID # k)

\* a SizeSignals call has returned and its result is in scope
Sized == pc \in {"sized", "recorded"}

\* C1: at every cycle the live trading cycle and the replay step, given the
\* same configuration and the same signals, size the same signals to the
\* same amounts in the same order.
C1_LiveReplayEquivalent ==
    (turn = "live" /\ cycle > 0) => sized = replaySized

\* C2: every sized signal has MinBetAmount <= amount <= MaxPositionPct x
\* TotalValue.
C2_AmountWithinBounds ==
    Sized =>
      \A i \in 1..Len(sized) :
        /\ sized[i].Amount >= cfg.MinBetAmount
        /\ sized[i].Amount * PctDen
             <= cfg.MaxPositionPct * pre.portfolio.TotalValue

\* a signal whose Kelly amount was cut down to the position cap
C2_Witness ==
    /\ pc = "sized"
    /\ \E i \in 1..Len(sized) :
         /\ sized[i].Amount > 0
         /\ sized[i].Amount * PctDen
              = cfg.MaxPositionPct * pre.portfolio.TotalValue

\* C3: the amounts approved by one call sum to at most the total-exposure
\* budget left when the call began, so that recording them keeps total
\* exposure within MaxTotalExposure x TotalValue.
C3_BatchWithinExposureBudget ==
    (Sized /\ sized # <<>>) =>
      /\ (SumAmounts(sized) + pre.totalExposure) * PctDen
           <= cfg.MaxTotalExposure * pre.portfolio.TotalValue
      /\ pc = "recorded" =>
           mgr.totalExposure * PctDen
             <= cfg.MaxTotalExposure * mgr.portfolio.TotalValue

\* C4: with the per-market cap on, persisted exposure of a market plus all
\* that one batch approves for it stays within MaxMarketExposurePct x
\* TotalValue.
C4_MarketCapHolds ==
    (Sized /\ cfg.MaxMarketExposurePct > 0) =>
      \A k \in Markets :
        SizedOn(sized, k) # <<>> =>
          (pre.marketExposure[k] + SumAmounts(SizedOn(sized, k))) * PctDen
            <= cfg.MaxMarketExposurePct * pre.portfolio.TotalValue

\* two signals of one market approved, together filling the market's cap
C4_Witness ==
    /\ pc = "sized"
    /\ cfg.MaxMarketExposurePct > 0
    /\ \E k \in Markets :
         /\ Len(SizedOn(sized, k)) = 2
         /\ \A i \in 1..2 : SizedOn(sized, k)[i].Amount > 0
         /\ (pre.marketExposure[k] + SumAmounts(SizedOn(sized, k))) * PctDen
              = cfg.MaxMarketExposurePct * pre.portfolio.TotalValue

\* the case of C5: signal i is the only one of its market in the batch, the
\* market has room left (C - E > 0) and the signal asks for more than that
DemandsOverRoom(i) ==
    LET k == signals[i].MarketID
        room == RSub(MaxMarketExposure(cfg, pre), Whole(pre.marketExposure[k]))
    IN  /\ Len(SignalsOn(signals, k)) = 1
        /\ RGt(room, Whole(0))
        /\ RGt(Whole(sizePosition(cfg, pre, signals[i])), room)

\* floor(C - E) for the market of signal i, in ticks
RoomFloor(i) ==
    LET room == RSub(MaxMarketExposure(cfg, pre),
                     Whole(pre.marketExposure[signals[i].MarketID]))
    IN  (room[1] \div (room[2] * MoneyDen)) * MoneyDen

\* C5: a lone signal of a market that asks for more than the room C - E is
\* sized to exactly floor(C - E), kept only if that reaches MinBetAmount, and
\* the signals of the other markets are sized as if it were not in the batch.
C5_CappedToFloorOfRoom ==
    (pc = "sized" /\ verdict = TRUE /\ cfg.MaxMarketExposurePct > 0) =>
      \A i \in 1..Len(signals) :
        DemandsOverRoom(i) =>
          LET k == signals[i].MarketID
          IN  /\ SizedOn(sized, k) =
                   IF RoomFloor(i) >= cfg.MinBetAmount
                   THEN <<[Signal |-> signals[i], Amount |-> RoomFloor(i)]>>
                   ELSE <<>>
              /\ SizedOff(sized, k) =
                   SizeSignals(cfg, pre, SignalsOff(signals, k)).sized

\* market-1 holds exposure, its lone signal is cut to the whole mana below a
\* fractional room, and the signal of the other market gets more
C5_Witness ==
    /\ pc = "sized"
    /\ verdict = TRUE
    /\ cfg.MaxMarketExposurePct > 0
    /\ Len(signals) = 2
    /\ Len(sized) = 2
    /\ DemandsOverRoom(1)
    /\ pre.marketExposure[signals[1].MarketID] > 0
    /\ sized[1].Amount = RoomFloor(1)
    /\ sized[1].Amount > 0
    /\ (sized[1].Amount + pre.marketExposure[signals[1].MarketID]) * PctDen
         < cfg.MaxMarketExposurePct * pre.portfolio.TotalValue
    /\ sized[2].Amount > sized[1].Amount

\* C6: with MinBetAmount >= 0 no sized signal carries amount 0.
C6_NoZeroAmount ==
    (Sized /\ cfg.MinBetAmount >= 0) =>
      \A i \in 1..Len(sized) : sized[i].Amount # 0

\* C7: when CanTrade is false as SizeSignals is called, nothing is sized.
C7_HardGate ==
    (Sized /\ verdict = FALSE) => sized = <<>>

\* the gate is closed on a batch whose first signal would have been sized
C7_Witness ==
    /\ pc = "sized"
    /\ verdict = FALSE
    /\ signals # <<>>
    /\ pre.portfolio.TotalValue > 0
    /\ sizePosition(cfg, SetExposure(pre, 0), signals[1]) > 0

PeakSeen(m) ==
    IF m.portfolio.TotalValue > m.peakBalance
    THEN m.portfolio.TotalValue
    ELSE m.peakBalance

BelowExposureLimit(m) ==
    m.totalExposure * PctDen < cfg.MaxTotalExposure * m.portfolio.TotalValue

\* C8: with TotalValue > 0 and exposure below its limit, CanTrade is false
\* exactly when (peak - TotalValue) / peak >= MaxDrawdownPct, peak being the
\* high-water mark updated with the current TotalValue.
C8_DrawdownBreaker ==
    (pc = "checked" /\ pre.portfolio.TotalValue > 0 /\ BelowExposureLimit(pre)) =>
      (verdict = FALSE <=>
         (PeakSeen(pre) - pre.portfolio.TotalValue) * PctDen
           >= cfg.MaxDrawdownPct * PeakSeen(pre))

\* CanTrade refused at a drawdown of exactly MaxDrawdownPct
C8_Witness ==
    /\ pc = "checked"
    /\ pre.portfolio.TotalValue > 0
    /\ BelowExposureLimit(pre)
    /\ verdict = FALSE
    /\ (PeakSeen(pre) - pre.portfolio.TotalValue) * PctDen
         = cfg.MaxDrawdownPct * PeakSeen(pre)

\* C9: CanTrade is false when TotalValue <= 0, leaving the peak as it was,
\* and false when totalExposure / TotalValue >= MaxTotalExposure.
C9_NoBalanceOrExposureLimit ==
    pc = "checked" =>
      /\ pre.portfolio.TotalValue <= 0 =>
           (verdict = FALSE /\ mgr.peakBalance = pre.peakBalance)
      /\ (pre.portfolio.TotalValue > 0 /\ ~BelowExposureLimit(pre)) =>
           verdict = FALSE

\* CanTrade refused with exposure exactly at the limit and no drawdown
C9_Witness ==
    /\ pc = "checked"
    /\ verdict = FALSE
    /\ pre.portfolio.TotalValue > 0
    /\ pre.peakBalance <= pre.portfolio.TotalValue
    /\ pre.totalExposure * PctDen
         = cfg.MaxTotalExposure * pre.portfolio.TotalValue

\* C10: a signal with Edge < MinEdge is sized 0 by sizePosition and is not
\* among the sized signals.
C10_LowEdgeDropped ==
    pc = "sized" =>
      \A i \in 1..Len(signals) :
        signals[i].Edge < cfg.MinEdge =>
          /\ sizePosition(cfg, pre, signals[i]) = 0
          /\ \A j \in 1..Len(sized) : sized[j].Signal # signals[i]

(***************************************************************************)
(* Properties of the Executor and of the cycle that calls it.              *)
(***************************************************************************)
\* the placements the provider confirmed in this cycle
ConfirmedPosts == SelectSeq(posts, LAMBDA q : q.ok)

RECURSIVE SumPosted(_)
SumPosted(qs) ==
    IF qs = <<>> THEN 0 ELSE Head(qs).req.Amount + SumPosted(Tail(qs))

\* C11: RecordTrade is not called while Execute runs; once Execute has
\* returned it is called exactly once, in order, for each result reporting
\* success, a result reports success only for a placement the provider
\* confirmed, and total exposure has grown by the confirmed amounts alone.
C11_RecordOnlyConfirmed ==
    /\ pc = "executing" => (recorded = <<>> /\ mgr = pre)
    /\ Len(SelectSeq(results, LAMBDA r : r.Success)) = Len(ConfirmedPosts)
    /\ pc = "recorded" =>
         /\ Len(recorded) = Len(ConfirmedPosts)
         /\ \A j \in 1..Len(recorded) :
              recorded[j] = <<ConfirmedPosts[j].req.ContractId,
                              ConfirmedPosts[j].req.Amount>>
         /\ mgr.totalExposure = pre.totalExposure + SumPosted(ConfirmedPosts)

\* a cycle of one confirmed placement, one failed and nothing skipped, or of
\* one confirmed and one skipped, has recorded the confirmed one alone
C11_Witness ==
    /\ pc = "recorded"
    /\ Len(results) = 2
    /\ Len(recorded) = 1
    /\ \E i \in 1..2 : ~results[i].Success
    /\ mgr.totalExposure > pre.totalExposure

\* executeSingle has just run on the sized signal at position Len(results')
ExecStep == pc = "executing" /\ Len(results') = Len(results) + 1

\* C12: per failedBets key, a placement is skipped (no PostBet call) exactly
\* when the key has had 3 transient failures in a row since its last success
\* or was blacklisted; a transient failure adds one to the counter and a
\* success sets it to zero.
C12_ThreeTransientFailuresSkip ==
    [][ExecStep =>
        LET s == sized[Len(results')]
            k == FailureKey(s.Signal)
            r == results'[Len(results')]
            posted == Len(posts') = Len(posts) + 1
        IN  /\ ~posted => posts' = posts
            /\ ~posted <=> (keyHist[k].fails >= 3 \/ keyHist[k].permanent)
            /\ (posted /\ r.Success) => failedBets'[k] = 0
            /\ (posted /\ ~r.Success /\ ~IsPermanent(r.Error)) =>
                 failedBets'[k] = failedBets[k] + 1
            /\ \A k2 \in FailureKeys \ {k} : failedBets'[k2] = failedBets[k2]
       ]_vars

\* in one cycle a key is skipped after three transient failures in a row and
\* a placement of another key succeeds, leaving its counter at zero
C12_Witness ==
    /\ pc = "executing"
    /\ \E i \in 1..Len(results) :
         /\ results[i].Error = {"skipped"}
         /\ keyHist[FailureKey(results[i].Signal.Signal)].fails = 3
         /\ ~keyHist[FailureKey(results[i].Signal.Signal)].permanent
    /\ \E j \in 1..Len(results) :
         /\ results[j].Success
         /\ failedBets[FailureKey(results[j].Signal.Signal)] = 0

\* the message indicates a resolved, closed, forbidden or not-found condition
IndicatesPermanent(msg) ==
    msg \cap {"resolved", "closed", "status 403", "status 404"} # {}

\* C13: a failed placement whose message indicates a resolved, closed,
\* forbidden or not-found condition blacklists the key at once, any other
\* failure adds one to the counter, and a blacklisted key stays blacklisted
\* and is never placed again.
C13_PermanentFailureBlacklists ==
    [][ExecStep =>
        LET s == sized[Len(results')]
            k == FailureKey(s.Signal)
            r == results'[Len(results')]
            posted == Len(posts') = Len(posts) + 1
        IN  /\ (posted /\ ~r.Success /\ IndicatesPermanent(r.Error)) =>
                 failedBets'[k] = Blacklisted
            /\ (posted /\ ~r.Success /\ ~IndicatesPermanent(r.Error)) =>
                 failedBets'[k] = failedBets[k] + 1
            /\ failedBets[k] = Blacklisted =>
                 (~posted /\ failedBets'[k] = Blacklisted)
       ]_vars

\* C14: an order is skipped exactly when its own (market, outcome, answer)
\* has had 3 transient failures in a row since its own last success or a
\* permanent failure: the failures and successes of the other side of the
\* same market and answer do not count.
C14_PerSideFailureState ==
    [][ExecStep =>
        LET s == sized[Len(results')]
            posted == Len(posts') = Len(posts) + 1
            h == sideHist[SideKey(s.Signal)]
        IN  ~posted <=> (h.fails >= 3 \/ h.permanent)
       ]_vars

(***************************************************************************)
(* Properties of the generator loop of the two drivers.                    *)
(***************************************************************************)
\* generator i is enabled and its Evaluate returned no error
Contributes(i) == strategies[i].Enabled /\ ~evals[i].err

\* the outputs of the contributing generators among the first n, in
\* registration order
RECURSIVE ConcatOutputs(_)
ConcatOutputs(n) ==
    IF n = 0 THEN <<>>
    ELSE ConcatOutputs(n - 1) \o (IF Contributes(n) THEN evals[n].out ELSE <<>>)

EnabledInOrder ==
    SelectSeq([i \in 1..Len(strategies) |-> i],
              LAMBDA i : strategies[i].Enabled)

\* C15: in the live cycle and in the replay step alike, the list that goes
\* to SizeSignals is the concatenation, in registration order, of the
\* outputs of the generators that are enabled and returned no error, and
\* Evaluate is called on the enabled generators and on no other.
C15_SignalsOfEnabledGenerators ==
    /\ turn = "replay" =>
         /\ signals = ConcatOutputs(Len(strategies))
         /\ evaluated = EnabledInOrder
    /\ (turn = "live" /\ cycle > 0) =>
         /\ replaySignals = ConcatOutputs(Len(strategies))
         /\ replayEvaluated = EnabledInOrder

\* both drivers have run a cycle in which a disabled generator had a signal
\* to give, an enabled one returned an error with a signal, and two others
\* contributed
C15_Witness ==
    /\ turn = "live"
    /\ cycle > 0
    /\ \E i \in 1..Len(strategies) :
         ~strategies[i].Enabled /\ evals[i].out # <<>>
    /\ \E i \in 1..Len(strategies) :
         strategies[i].Enabled /\ evals[i].err /\ evals[i].out # <<>>
    /\ Len(signals) = 2
    /\ signals[1] # signals[2]
    /\ replaySignals = signals

(***************************************************************************)
(* Properties of the scheduler loop.                                       *)
(***************************************************************************)
\* C16: at most one cycle body runs at any time; while Run stands at its
\* start, at the select or has returned, no body is running, so a body
\* that started has returned before another starts and the trading cycle
\* is never entered twice; and when a cancellation arrived while a body
\* was running, Run returns with it only after that body ran to its return.
C16_OneCycleBodyAtATime ==
    /\ Cardinality(Running) <= 1
    /\ \A k \in Kinds : bodies[k].n <= 1
    /\ loop \in {"start", "select", "returned"} => Running = {}
    /\ (returned = "cancelled" /\ cancelledAt # "none") => ranOn

\* the cancellation arrived while the trading cycle was scanning, with a
\* tick waiting; the cycle went on to its end and only then Run returned
C16_Witness ==
    /\ returned = "cancelled"
    /\ cancelledAt = "scan"
    /\ ranOn
    /\ pending # {}
    /\ Running = {}

\* C17: once a cycle body has started, Run never returns an error: it
\* returns only with the cancellation, and after a body that logged
\* failures has returned, Run stands at the select (or in the collection
\* that follows the first trading cycle) and goes on.
C17_FailuresNeverEndRun ==
    /\ begun => returned \in {"no", "cancelled"}
    /\ returned = "cancelled" => cancelled
    /\ (begun /\ logged \cap Fallible # {} /\ returned = "no" /\ Running = {})
          => loop = "select"

\* a trading cycle whose portfolio refresh failed has returned; Run waits
\* at the select for the next tick, with no cancellation
C17_Witness ==
    /\ loop = "select"
    /\ returned = "no"
    /\ logged = {"refresh"}
    /\ ~cancelled
    /\ pending = {}

(***************************************************************************)
(* Properties of the cache.                                                *)
(***************************************************************************)
\* what the expiry rule says of the entry of id in the map m at time t
Fresh(m, id, t) == m[id].by # 0 /\ t - m[id].fetchedAt <= ttl

\* C18: a Get(id) that has read reports found exactly when the map it read
\* held an entry for id with now - fetchedAt <= ttl, and an All() that has
\* read returns exactly the ids for which that holds at its instant, which
\* are the ids Get reports found for.
C18_ExpiryRule ==
    \A p \in Readers :
        /\ (call[p].at = "done" /\ call[p].op = "Get") =>
              (call[p].found <=> Fresh(call[p].snap, call[p].id, call[p].t))
        /\ (call[p].at = "done" /\ call[p].op = "All") =>
              /\ call[p].ids = {id \in Ids : Fresh(call[p].snap, id, call[p].t)}
              /\ call[p].ids =
                   {id \in Ids : GetFound(call[p].snap[id], call[p].t, ttl)}

\* with ttl 1: a Get has found an entry aged exactly ttl while an All, one
\* tick later, has left out that entry and returned a younger one
C18_Witness ==
    /\ ttl = 1
    /\ call["r1"].at = "done"
    /\ call["r1"].op = "Get"
    /\ call["r1"].found
    /\ call["r1"].t - call["r1"].snap[call["r1"].id].fetchedAt = ttl
    /\ call["r2"].at = "done"
    /\ call["r2"].op = "All"
    /\ call["r2"].t = call["r1"].t + 1
    /\ call["r1"].id \notin call["r2"].ids
    /\ call["r2"].ids # {}

\* a SetAll that has stored some entries of its list and not yet all
Partial(w) ==
    /\ call[w].op = "SetAll"
    /\ call[w].at = "writing"
    /\ call[w].i > 1

ActiveSum == SumProbability(SelectSeq(market.Answers, IsActive))

\* |S - 1|
ActiveDeviation ==
    IF RLt(ActiveSum, Whole(1)) THEN RSub(Whole(1), ActiveSum)
    ELSE RSub(ActiveSum, Whole(1))

\* C20: when evaluateMarket has returned signals, |S - 1| is at least
\* MinProbSumDeviation, every signal is NO if S > 1 and YES if S < 1 (S is
\* then not 1), and every signal's edge is at least 0.03.
C20_ArbitrageSignals ==
    (arbPc = "evaluated" /\ arbOut # <<>>) =>
        /\ RGe(ActiveDeviation, arbCfg.MinProbSumDeviation)
        /\ ActiveSum # Whole(1)
        /\ \A i \in 1..Len(arbOut) :
             /\ arbOut[i].Outcome =
                  (IF RGt(ActiveSum, Whole(1)) THEN "NO" ELSE "YES")
             /\ RGe(arbOut[i].Edge, Rat(3, 100))

\* a market of three answers, one of them resolved CANCEL, whose two active
\* answers sum to 0.70 under a threshold of 0.10: two YES signals
C20_Witness ==
    /\ arbPc = "evaluated"
    /\ arbCfg.MinProbSumDeviation = Hundredths(10)
    /\ Len(market.Answers) = 3
    /\ \E i \in 1..3 : market.Answers[i].Resolution = "CANCEL"
                          /\ market.Answers[i].Probability = Hundredths(50)
    /\ ActiveSum = Hundredths(70)
    /\ Len(arbOut) = 2
    /\ arbOut[1].Outcome = "YES"

\* the answers the rule calls active: unresolved, probability strictly
\* between 0.001 and 0.999
ActiveIDs ==
    {market.Answers[i].ID : i \in
        {j \in 1..Len(market.Answers) :
            /\ market.Answers[j].Resolution = ""
            /\ market.Answers[j].Probability[1] * 1000 >
                  market.Answers[j].Probability[2]
            /\ market.Answers[j].Probability[1] * 1000 <
                  999 * market.Answers[j].Probability[2]}}

RECURSIVE SumOver(_)
SumOver(ids) ==
    IF ids = {} THEN Whole(0)
    ELSE LET id == CHOOSE x \in ids : TRUE
             ans == market.Answers[CHOOSE j \in 1..Len(market.Answers) :
                                      market.Answers[j].ID = id]
         IN  RAdd(ans.Probability, SumOver(ids \ {id}))

\* the fair value a signal was computed with, read back from its confidence
FairValueOf(sig) ==
    IF sig.Outcome = "YES" THEN sig.Confidence
    ELSE RSub(Whole(1), sig.Confidence)

\* C21: every signal evaluateMarket returns is for an active answer and was
\* computed with fair value p / S where S sums the active answers only (no
\* resolved or pinned answer is in the sum or gets a signal), and a market
\* with fewer than two active answers gets no signal.
C21_OnlyActiveAnswers ==
    arbPc = "evaluated" =>
        /\ \A i \in 1..Len(arbOut) :
             /\ arbOut[i].AnswerID \in ActiveIDs
             /\ RMul(FairValueOf(arbOut[i]), SumOver(ActiveIDs))
                   = arbOut[i].MarketProb
        /\ Cardinality(ActiveIDs) < 2 => arbOut = <<>>

\* a market whose first answer is resolved NO at 0.50: the two others,
\* summing to 0.65, get the only signals
C21_Witness ==
    /\ arbPc = "evaluated"
    /\ Len(market.Answers) = 3
    /\ market.Answers[1].Resolution = "NO"
    /\ market.Answers[1].Probability = Hundredths(50)
    /\ market.Answers[2].Probability = Hundredths(30)
    /\ market.Answers[3].Probability = Hundredths(35)
    /\ Len(arbOut) = 2
    /\ arbOut[1].AnswerID = "a2"
    /\ arbOut[2].AnswerID = "a3"

(***************************************************************************)
(* Properties of the strategies over binary markets.                       *)
(***************************************************************************)
\* C22: when TimeDecay.Evaluate has returned a signal, the market is binary
\* and unresolved, its probability is below 0.5, its volume is above
\* MinVolume and its question matches a deadline pattern (so a question
\* that matches none gets no signal at any elapsed fraction), and every
\* signal is a NO limit order.
C22_TimeDecaySignals ==
    (binPc = "evaluated" /\ binOut # <<>>) =>
        /\ binMarket.OutcomeType = "BINARY"
        /\ ~binMarket.IsResolved
        /\ RLt(binMarket.Probability, Rat(1, 2))
        /\ binMarket.Volume > binCfg.MinVolume
        /\ \E p \in 1..Len(timePatterns) :
             MatchString(timePatterns[p], binMarket.Question)
        /\ \A i \in 1..Len(binOut) :
             binOut[i].Outcome = "NO" /\ binOut[i].IsLimitOrder

\* the tests' market: 80 of 100 days elapsed, probability 0.40, volume 200,
\* "... by December 2026" gives one signal with edge 0.16
C22_Witness ==
    /\ binPc = "evaluated"
    /\ binCfg.MinVolume = 50
    /\ binNow = 80
    /\ binMarket.Question = <<"will", "x", "happen", "by", "December", "2026">>
    /\ Len(binOut) = 1
    /\ binOut[1].Edge = Hundredths(16)
    /\ binOut[1].Outcome = "NO"

\* the spread the rule gives a market of this liquidity
SpreadFor(liq) ==
    IF liq > 2000 THEN Rat(2, 100)
    ELSE IF liq > 1000 THEN Rat(3, 100)
    ELSE binCfg.BaseSpread

\* C23: MarketMaking.Evaluate returns nothing for an ineligible market and,
\* for an eligible one, exactly two limit orders: YES at p - spread/2 and
\* NO at p + spread/2, with spread 0.02 above liquidity 2000, 0.03 above
\* 1000 and the configured base spread otherwise.
C23_MarketMakingSignals ==
    binPc = "evaluated" =>
        IF isEligible(binCfg, binMarket, binNow)
        THEN /\ Len(binOut) = 2
             /\ binOut[1].Outcome = "YES"
             /\ binOut[2].Outcome = "NO"
             /\ binOut[1].IsLimitOrder /\ binOut[2].IsLimitOrder
             /\ binOut[1].LimitProb =
                  RSub(binMarket.Probability,
                       RDiv(SpreadFor(binMarket.TotalLiquidity), Whole(2)))
             /\ binOut[2].LimitProb =
                  RAdd(binMarket.Probability,
                       RDiv(SpreadFor(binMarket.TotalLiquidity), Whole(2)))
        ELSE binOut = <<>>

\* liquidity 2500 and probability 0.50 under a base spread of 0.04: targets
\* 0.49 and 0.51
C23_Witness ==
    /\ binPc = "evaluated"
    /\ binCfg.BaseSpread = Hundredths(4)
    /\ binMarket.TotalLiquidity = 2500
    /\ binMarket.Probability = Hundredths(50)
    /\ Len(binOut) = 2
    /\ binOut[1].LimitProb = Hundredths(49)
    /\ binOut[2].LimitProb = Hundredths(51)

(***************************************************************************)
(* Properties of the portfolio.                                            *)
(***************************************************************************)
\* C24: after a Refresh, whether it returned nil or an error and whatever
\* the provider answered, TotalValue = Balance + InvestmentValue.
C24_TotalIsBalancePlusInvested ==
    refreshErr # "none" =>
        portf.TotalValue = portf.Balance + portf.InvestmentValue

(***************************************************************************)
(* Properties of the enrichment.                                           *)
(***************************************************************************)
\* the detail fetches in flight: workers between acquiring and the return
\* of GetMarketByID
InFlight ==
    Cardinality({i \in NamedCandidates : worker[i] = "fetching"})
       + crowdAt.fetching

\* C25: at every instant at most 10 detail fetches are in flight, with any
\* number of candidates and any interleaving of the workers.
C25_AtMostTenInFlight == InFlight <= 10

\* eleven candidates: ten fetches are in flight, one of them a named
\* worker's, and the eleventh worker waits at the semaphore
C25_Witness ==
    /\ Candidates = 11
    /\ InFlight = 10
    /\ worker[1] = "fetching"
    /\ worker[2] = "waiting"

\* the named market i as enrichment must leave it
Enriched(i) ==
    IF i \in NamedCandidates /\ fetched[i].kind = "market"
    THEN MergeAnswers(ScannedMarkets[i], fetched[i].answers)
    ELSE ScannedMarkets[i]

\* C26: enrichWithResolution returns, and when it has returned every worker
\* has exited, nothing is left in the channels, a market whose fetch failed
\* or returned nothing (or that was no candidate) is as the scan left it,
\* and a market whose fetch succeeded carries its own fetched answers.
C26_EnrichmentTerminates ==
    /\ <>(mainPc = "returned")
    /\ [](mainPc = "returned" =>
            /\ \A i \in NamedCandidates : worker[i] = "exited"
            /\ crowdAt.exited = crowd
            /\ sem = 0 /\ wg = 0
            /\ fetchResults = [named |-> {}, crowd |-> 0]
            /\ \A i \in Named : scanned[i] = Enriched(i))

\* eleven candidates: the fetch for market-1 failed and left it unchanged,
\* the fetch for market-2 was merged into market-2, and the call returned
C26_Witness ==
    /\ mainPc = "returned"
    /\ Candidates = 11
    /\ fetched[1].kind = "err"
    /\ scanned[1] = ScannedMarkets[1]
    /\ fetched[2].kind = "market"
    /\ scanned[2].Answers[2].Resolution = "CANCEL"
    /\ scanned[2].Answers[2].Text = "zwei"

(***************************************************************************)
(* Properties of the cycles.                                               *)
(***************************************************************************)
\* C27: a trading cycle whose portfolio refresh succeeded returns only from
\* its last step, the bankroll snapshot, which follows the RecordTrade
\* calls: it never returns earlier, whatever the signals of the cycle.
C27_CycleEndsWithSnapshot ==
    [][(bodies["trading"].n > 0 /\ bodies'["trading"].n = 0)
          => bodies["trading"].at \in {"refresh", "snapshot"}]_vars

\* C28 as stated: a trading tick never waits while a collection or a report
\* body runs.
C28_NeverDelaysTrading ==
    "trading" \in pending => Running \cap {"collection", "report"} = {}

\* C28, amended: a trading tick that fires while a collection or report
\* body runs waits in its ticker's channel: no trading cycle starts before
\* that body has returned, and the waiting tick leaves the channel only at
\* the select, by starting a trading cycle.
C28_TickWaitsForRunningBody ==
    [][/\ ("trading" \in pending /\ "trading" \notin pending') =>
            /\ loop = "select"
            /\ Running = {}
            /\ bodies'["trading"].n = 1
       /\ Running \cap {"collection", "report"} # {} =>
            bodies'["trading"] = bodies["trading"]]_vars

\* the trading ticker has fired during a collection body: the tick waits
\* and the collection goes on
C28_Witness ==
    /\ loop = "call"
    /\ Running = {"collection"}
    /\ "trading" \in pending
    /\ ~cancelled

(***************************************************************************)
(* SizeSignals on its own: called once on a manager that Refresh,          *)
(* SetExposure and SetMarketExposure have set up, and its sized signals    *)
(* recorded.                                                               *)
(***************************************************************************)
SizingManagers ==
    {SetMarketExposure(SetExposure(Refresh(NewManager(PortfolioOf(acct))), e), f) :
       acct \in ProviderAccounts, e \in Exposures, f \in LedgerExposures}

InitSizing ==
    /\ OthersIdle
    /\ replay = NewManager(NewPortfolio)
    /\ replaySized = <<>>
    /\ account = <<0, 0>>
    /\ ledger = NoBets
    /\ turn = "none"
    /\ cycle = 0
    /\ cfg \in RiskConfigs
    /\ mgr \in SizingManagers
    /\ pc = "idle"
    /\ signals = <<>>
    /\ sized = <<>>
    /\ verdict = "none"
    /\ pre = mgr

NextSizing ==
    \/ CallSizeSignals
    \/ RecordTrades

SpecSizing == InitSizing /\ [][NextSizing]_vars

(***************************************************************************)
(* First-come-first-served sizing.                                         *)
(***************************************************************************)
\* what the call found would have sized for the first n signals alone
SizedOfPrefix(n) == SizeSignals(cfg, pre, SubSeq(signals, 1, n)).sized

\* sub can be read off full from left to right
RECURSIVE IsSubsequence(_, _)
IsSubsequence(sub, full) ==
    IF sub = <<>> THEN TRUE
    ELSE IF full = <<>> THEN FALSE
    ELSE IF Head(sub) = Head(full)
         THEN IsSubsequence(Tail(sub), Tail(full))
         ELSE IsSubsequence(sub, Tail(full))

SignalsOf(ss) == [i \in 1..Len(ss) |-> ss[i].Signal]

\* C29: sizing is first come, first served.  The sized signals are the input
\* signals in input order with some left out; each signal is decided once,
\* when its turn comes, so that what was sized for a prefix of the batch is a
\* prefix of what is sized for the batch; and what a market's signals get is
\* what they would get with the signals of the other markets taken out.
C29_FirstComeFirstServed ==
    pc = "sized" =>
      /\ IsSubsequence(SignalsOf(sized), signals)
      /\ SizedOfPrefix(Len(signals)) = sized
      /\ \A n \in 1..Len(signals) :
           \/ SizedOfPrefix(n) = SizedOfPrefix(n - 1)
           \/ /\ Len(SizedOfPrefix(n)) = Len(SizedOfPrefix(n - 1)) + 1
              /\ SubSeq(SizedOfPrefix(n), 1, Len(SizedOfPrefix(n - 1)))
                   = SizedOfPrefix(n - 1)
              /\ SizedOfPrefix(n)[Len(SizedOfPrefix(n))].Signal = signals[n]
      /\ \A k \in Markets :
           SizedOn(sized, k) = SizeSignals(cfg, pre, SignalsOn(signals, k)).sized

\* two signals of one market, the later with the larger edge: the earlier
\* gets what it would get alone, the later gets less than it would alone,
\* and a signal of the other market came between or beside them untouched
C29_Witness ==
    /\ pc = "sized"
    /\ verdict = TRUE
    /\ Len(signals) = 2
    /\ Len(sized) = 2
    /\ signals[1].MarketID = signals[2].MarketID
    /\ signals[1].Edge < signals[2].Edge
    /\ sized[1] = SizeSignals(cfg, pre, <<signals[1]>>).sized[1]
    /\ SizeSignals(cfg, pre, <<signals[2]>>).sized # <<>>
    /\ sized[2].Amount < SizeSignals(cfg, pre, <<signals[2]>>).sized[1].Amount
    /\ sized[2].Amount > 0

(***************************************************************************)
(* The per-market cap at and above zero.                                   *)
(***************************************************************************)
NoCycle == [cycle |-> [k \in Markets |-> 0], sized |-> <<>>]

\* the sizing loop as it stands when the turn of signal i comes, and after
BeforeSignal(i) == SizeLoop(cfg, mgr, SubSeq(signals, 1, i - 1), 1, NoCycle)

AfterSignal(i) == SizeOne(cfg, mgr, BeforeSignal(i), signals[i])

DroppedAt(i) == AfterSignal(i).sized = BeforeSignal(i).sized

\* MaxMarketExposurePct x TotalValue - (persisted exposure of the market of
\* signal i + the amounts approved earlier in the batch for that market)
RemainingAt(i) ==
    RSub(RMul(Pct(cfg.MaxMarketExposurePct), Whole(pre.portfolio.TotalValue)),
         Whole(pre.marketExposure[signals[i].MarketID]
                 + SumAmounts(SizedOn(BeforeSignal(i).sized,
                                      signals[i].MarketID))))

\* C30, as stated: for every cap fraction >= 0, zero included, a signal with
\* remaining <= 0 is dropped.
C30_DropsWithoutRoom ==
    (pc = "sized" /\ verdict = TRUE /\ cfg.MaxMarketExposurePct >= 0) =>
      \A i \in 1..Len(signals) :
        RLe(RemainingAt(i), Whole(0)) => DroppedAt(i)

\* C30, amended: for every cap fraction > 0 a signal with remaining <= 0 is
\* dropped; with the fraction 0 the cap is off, and a signal is kept at its
\* sizePosition amount whenever that reaches MinBetAmount.
C30_DropsWithoutRoomUnderCap ==
    (pc = "sized" /\ verdict = TRUE) =>
      /\ SizeLoop(cfg, mgr, signals, 1, NoCycle).sized = sized
      /\ \A i \in 1..Len(signals) :
           /\ (cfg.MaxMarketExposurePct > 0 /\ RLe(RemainingAt(i), Whole(0)))
                => DroppedAt(i)
           /\ cfg.MaxMarketExposurePct = 0 =>
                (DroppedAt(i) <=>
                   sizePosition(cfg, mgr, signals[i]) < cfg.MinBetAmount)

\* under a cap of 10%, the first signal of a market takes the last of its
\* room and the second, which alone would have been sized, is dropped
C30_Witness ==
    /\ pc = "sized"
    /\ verdict = TRUE
    /\ cfg.MaxMarketExposurePct > 0
    /\ Len(signals) = 2
    /\ Len(sized) = 1
    /\ sized[1].Signal = signals[1]
    /\ signals[2].MarketID = signals[1].MarketID
    /\ RemainingAt(2) = Whole(0)
    /\ DroppedAt(2)
    /\ sizePosition(cfg, mgr, signals[2]) >= cfg.MinBetAmount
    /\ sizePosition(cfg, mgr, signals[2]) > 0

(***************************************************************************)
(* The high-water mark.                                                    *)
(***************************************************************************)
\* C31: no step of the risk engine lowers the peak, whatever the calls and
\* the portfolio changes; and as CanTrade returns past its TotalValue > 0
\* check (alone or inside SizeSignals), and as Refresh returns, the peak is at
\* least the current TotalValue.
C31_PeakMonotonic ==
    [][/\ mgr'.peakBalance >= mgr.peakBalance
       /\ (pc = "idle" /\ pc' \in {"checked", "sized"}
             /\ mgr.portfolio.TotalValue > 0)
            => mgr'.peakBalance >= mgr'.portfolio.TotalValue
       /\ (pc = "idle" /\ pc' = "idle" /\ mgr' = Refresh(mgr))
            => mgr'.peakBalance >= mgr'.portfolio.TotalValue
       /\ (pc = "recorded" /\ pc' = "idle")
            => mgr'.peakBalance >= mgr'.portfolio.TotalValue]_vars

\* CanTrade has returned on a portfolio worth less than an earlier one: the
\* peak stays at the earlier value
C31_Witness ==
    /\ pc = "checked"
    /\ mgr.portfolio.TotalValue > 0
    /\ mgr.peakBalance > mgr.portfolio.TotalValue
    /\ pre.peakBalance = mgr.peakBalance

(***************************************************************************)
(* What RecordTrade changes.                                               *)
(***************************************************************************)
\* C32: recording the sized signals of a call, one RecordTrade each, raises
\* total exposure by the sum of their amounts and each market's entry by the
\* sum of the amounts recorded for that market (by exactly a for one call
\* RecordTrade(m, a)), and leaves the peak and the portfolio as they were.
C32_RecordTradeFrame ==
    [][(pc = "sized" /\ pc' = "recorded") =>
         /\ mgr'.totalExposure = mgr.totalExposure + SumAmounts(sized)
         /\ \A k \in Markets :
              mgr'.marketExposure[k]
                = mgr.marketExposure[k] + SumAmounts(SizedOn(sized, k))
         /\ mgr'.peakBalance = mgr.peakBalance
         /\ mgr'.portfolio = mgr.portfolio
         /\ (Len(sized) = 1 =>
               mgr' = [mgr EXCEPT
                         !.totalExposure = @ + sized[1].Amount,
                         !.marketExposure[sized[1].Signal.MarketID]
                            = @ + sized[1].Amount])]_vars

\* two trades recorded on a manager that held exposure already, one on each
\* market
C32_Witness ==
    /\ pc = "recorded"
    /\ Len(sized) = 2
    /\ sized[1].Signal.MarketID # sized[2].Signal.MarketID
    /\ sized[1].Amount > 0
    /\ sized[2].Amount > 0
    /\ pre.totalExposure > 0
    /\ pre.marketExposure[sized[1].Signal.MarketID] > 0
    /\ mgr.totalExposure
         = pre.totalExposure + sized[1].Amount + sized[2].Amount

(***************************************************************************)
(* What the arbitrage strategy emits.                                      *)
(***************************************************************************)
ActiveAnswers == SelectSeq(market.Answers, IsActive)

\* p/S of an active answer
FairShare(ans) == RDiv(ans.Probability, ActiveSum)

\* the signal the rule prescribes for an overpriced and an underpriced answer
EmitsNo(ans) ==
    \E i \in 1..Len(arbOut) :
      /\ arbOut[i].AnswerID = ans.ID
      /\ arbOut[i].Outcome = "NO"
      /\ arbOut[i].IsLimitOrder
      /\ arbOut[i].Confidence = RSub(Whole(1), FairShare(ans))
      /\ arbOut[i].LimitProb
           = RDiv(RAdd(ans.Probability, FairShare(ans)), Whole(2))

EmitsYes(ans) ==
    \E i \in 1..Len(arbOut) :
      /\ arbOut[i].AnswerID = ans.ID
      /\ arbOut[i].Outcome = "YES"
      /\ arbOut[i].Confidence = FairShare(ans)

\* C33: for a market with at least two active answers, when S > 1 and
\* S - 1 >= MinProbSumDeviation (equality included) every active answer with
\* p - p/S >= 0.03 has a NO limit-order signal with confidence 1 - p/S and
\* limit target (p + p/S)/2; when S < 1 and 1 - S >= MinProbSumDeviation every
\* active answer with p/S - p >= 0.03 has a YES signal with confidence p/S.
C33_EmitsAtOrAboveThreshold ==
    (arbPc = "evaluated" /\ Len(ActiveAnswers) >= 2) =>
      /\ (RGt(ActiveSum, Whole(1))
            /\ RGe(RSub(ActiveSum, Whole(1)), arbCfg.MinProbSumDeviation)) =>
           \A j \in 1..Len(ActiveAnswers) :
             RGe(RSub(ActiveAnswers[j].Probability,
                      FairShare(ActiveAnswers[j])), Rat(3, 100))
               => EmitsNo(ActiveAnswers[j])
      /\ (RLt(ActiveSum, Whole(1))
            /\ RGe(RSub(Whole(1), ActiveSum), arbCfg.MinProbSumDeviation)) =>
           \A j \in 1..Len(ActiveAnswers) :
             RGe(RSub(FairShare(ActiveAnswers[j]),
                      ActiveAnswers[j].Probability), Rat(3, 100))
               => EmitsYes(ActiveAnswers[j])

(***************************************************************************)
(* Arbitrage.Evaluate over a slice of markets.  Times are days from the    *)
(* time of the call.                                                       *)
(***************************************************************************)
\* the longest slice of markets
MaxMarkets == 3

EvalAnswer(id, prob, res) ==
    [ID |-> id, Probability |-> Hundredths(prob), Resolution |-> res]

EvalMarket(type, resolved, liq, answers, close) ==
    [OutcomeType |-> type, IsResolved |-> resolved, TotalLiquidity |-> liq,
     Answers |-> answers, CloseTime |-> close]

\* the markets a scan can hand over: overpriced, underpriced, fairly priced,
\* binary, resolved, illiquid, of one answer, of two answers with one of them
\* resolved, and closing late
EvalMarketKinds ==
    {EvalMarket("MULTIPLE_CHOICE", FALSE, 60,
                <<EvalAnswer("a1", 75, ""), EvalAnswer("a2", 50, "")>>, 10),
     EvalMarket("MULTIPLE_CHOICE", FALSE, 60,
                <<EvalAnswer("a1", 30, ""), EvalAnswer("a2", 35, "")>>, 10),
     EvalMarket("MULTIPLE_CHOICE", FALSE, 60,
                <<EvalAnswer("a1", 50, ""), EvalAnswer("a2", 50, "")>>, 10),
     EvalMarket("BINARY", FALSE, 60, <<>>, 10),
     EvalMarket("MULTIPLE_CHOICE", TRUE, 60,
                <<EvalAnswer("a1", 75, ""), EvalAnswer("a2", 50, "")>>, 10),
     EvalMarket("MULTIPLE_CHOICE", FALSE, 40,
                <<EvalAnswer("a1", 75, ""), EvalAnswer("a2", 50, "")>>, 10),
     EvalMarket("MULTIPLE_CHOICE", FALSE, 60,
                <<EvalAnswer("a1", 75, "")>>, 10),
     EvalMarket("MULTIPLE_CHOICE", FALSE, 60,
                <<EvalAnswer("a1", 75, "NO"), EvalAnswer("a2", 50, "")>>, 10),
     EvalMarket("MULTIPLE_CHOICE", FALSE, 60,
                <<EvalAnswer("a1", 75, ""), EvalAnswer("a2", 50, "")>>, 60)}

\* a slice of markets; a market's ID is its position in the slice
EvalSlices ==
    UNION {{[i \in 1..n |-> [ID |-> i] @@ ks[i]] :
              ks \in [1..n -> EvalMarketKinds]} : n \in 0..MaxMarkets}

\* config.ArbitrageConfig: the defaults with max_markets_per_cycle and
\* max_close_days as the configuration file may set them
EvalConfigs ==
    [MinLiquidity : {50},
     MinProbSumDeviation : {Hundredths(10)},
     MaxMarketsPerCycle : {0, 1, 2},
     MaxCloseDays : {0, 30}]

\* the conditions of the loop that `continue` does not skip
PassesFilter(c, m) ==
    /\ m.OutcomeType = "MULTIPLE_CHOICE"
    /\ ~m.IsResolved
    /\ ~(m.TotalLiquidity < c.MinLiquidity)
    /\ ~(Len(m.Answers) < 2)
    /\ ~(c.MaxCloseDays > 0 /\ m.CloseTime > c.MaxCloseDays)

\* the loop stopped one market early (>= in place of >)
SlotsExhausted_Early(c, count) == count >= c.MaxMarketsPerCycle

\* if evaluated > a.cfg.MaxMarketsPerCycle { break }
SlotsExhausted(c, count) == count > c.MaxMarketsPerCycle

\* the loop of Evaluate from market i on
RECURSIVE EvaluateFrom(_, _, _, _)
EvaluateFrom(c, ms, i, acc) ==
    IF i > Len(ms) THEN acc
    ELSE IF ~PassesFilter(c, ms[i]) THEN EvaluateFrom(c, ms, i + 1, acc)
    ELSE IF SlotsExhausted(c, acc.evaluated + 1)
    THEN [acc EXCEPT !.evaluated = @ + 1]
    ELSE EvaluateFrom(c, ms, i + 1,
           [signals |-> acc.signals \o evaluateMarket(c, ms[i]),
            evaluated |-> acc.evaluated + 1,
            called |-> Append(acc.called, i)])

ArbitrageEvaluate(c, ms) == EvaluateFrom(c, ms, 1, NoEvaluation)

EvalFrame ==
    BaseFrame /\ UNCHANGED <<binVars, portfolioVars, enrichVars>>

InitEvaluate ==
    /\ BaseIdle
    /\ BinIdle
    /\ PortfolioIdle
    /\ EnrichIdle
    /\ evalMarkets \in EvalSlices
    /\ evalCfg \in EvalConfigs
    /\ evalOut = NoEvaluation
    /\ evalPc = "given"

\* signals, err := a.Evaluate(ctx, markets)
CallArbitrageEvaluate ==
    /\ evalPc = "given"
    /\ evalOut' = ArbitrageEvaluate(evalCfg, evalMarkets)
    /\ evalPc' = "evaluated"
    /\ UNCHANGED <<evalMarkets, evalCfg>>
    /\ EvalFrame

\* the next cycle hands the same slice over under another cap
NextEvaluateCall ==
    /\ evalPc = "evaluated"
    /\ \E n \in {0, 1, 2} :
         /\ n # evalCfg.MaxMarketsPerCycle
         /\ evalCfg' = [evalCfg EXCEPT !.MaxMarketsPerCycle = n]
    /\ evalOut' = NoEvaluation
    /\ evalPc' = "given"
    /\ UNCHANGED evalMarkets
    /\ EvalFrame

NextEvaluate ==
    \/ CallArbitrageEvaluate
    \/ NextEvaluateCall

SpecEvaluate == InitEvaluate /\ [][NextEvaluate]_vars

\* C34, as stated: eligibility is being multi-outcome, unresolved, liquid
\* enough, with at least 2 active answers and closing within the horizon
ClaimedEligible(c, m) ==
    /\ m.OutcomeType = "MULTIPLE_CHOICE"
    /\ ~m.IsResolved
    /\ m.TotalLiquidity >= c.MinLiquidity
    /\ Len(SelectSeq(m.Answers, IsActive)) >= 2
    /\ (c.MaxCloseDays > 0 => m.CloseTime <= c.MaxCloseDays)

\* the first n positions from i on that are in the set ok, in order
RECURSIVE FirstOf(_, _, _, _)
FirstOf(ok, len, i, n) ==
    IF i > len \/ n <= 0 THEN <<>>
    ELSE IF i \in ok THEN <<i>> \o FirstOf(ok, len, i + 1, n - 1)
    ELSE FirstOf(ok, len, i + 1, n)

RECURSIVE SignalsOfMarkets(_, _, _)
SignalsOfMarkets(c, ms, idx) ==
    IF idx = <<>> THEN <<>>
    ELSE evaluateMarket(c, ms[Head(idx)]) \o SignalsOfMarkets(c, ms, Tail(idx))

\* the markets evaluated are the first MaxMarketsPerCycle whose positions
\* are in ok, and the signals are theirs, in order
EvaluatesFirstN(ok) ==
    LET first == FirstOf(ok, Len(evalMarkets), 1, evalCfg.MaxMarketsPerCycle)
    IN  /\ Len(evalOut.called) <= evalCfg.MaxMarketsPerCycle
        /\ evalOut.called = first
        /\ evalOut.signals = SignalsOfMarkets(evalCfg, evalMarkets, first)

\* C34: Evaluate hands at most MaxMarketsPerCycle markets to evaluateMarket,
\* the first in input order that are eligible with at least 2 active answers;
\* a market that is not so eligible takes no slot, and the signals are those
\* of these markets only.
C34_FirstNEligible ==
    evalPc = "evaluated" =>
      EvaluatesFirstN({i \in 1..Len(evalMarkets) :
                         ClaimedEligible(evalCfg, evalMarkets[i])})

\* C34, amended: the filter counts a market's answers, active or not: the
\* markets handed to evaluateMarket are the first MaxMarketsPerCycle in input
\* order that are multi-outcome, unresolved, liquid enough, of at least 2
\* answers and closing within the horizon, and every signal is one of theirs.
C34_FirstNPassingFilter ==
    evalPc = "evaluated" =>
      /\ EvaluatesFirstN({i \in 1..Len(evalMarkets) :
                            PassesFilter(evalCfg, evalMarkets[i])})
      /\ \A i \in 1..Len(evalOut.signals) :
           \E j \in 1..Len(evalOut.called) :
             evalOut.signals[i].MarketID = evalOut.called[j]

\* one slot: a binary market is passed over without taking it, the second
\* market takes it and gives all the signals, the third would have given
\* signals too and is not reached
C34_Witness ==
    /\ evalPc = "evaluated"
    /\ evalCfg.MaxMarketsPerCycle = 1
    /\ Len(evalMarkets) = 3
    /\ evalMarkets[1].OutcomeType = "BINARY"
    /\ evalOut.called = <<2>>
    /\ evalOut.signals # <<>>
    /\ \A i \in 1..Len(evalOut.signals) : evalOut.signals[i].MarketID = 2
    /\ PassesFilter(evalCfg, evalMarkets[3])
    /\ evaluateMarket(evalCfg, evalMarkets[3]) # <<>>
    /\ evalOut.evaluated = 2

(***************************************************************************)
(* SizeSignals on a long batch: one signal many times over, as a cycle     *)
(* that gathers the signals of many generators and markets hands over.     *)
(***************************************************************************)
\* the longest such batch
MaxRun == 21

RunBatches ==
    {[i \in 1..n |-> s] :
       n \in 0..MaxRun,
       s \in {Sig("market-1", "YES", 90, 50, 40),
              Sig("market-2", "YES", 55, 50, 5)}}

\* sized := s.riskMgr.SizeSignals(allSignals)
CallSizeSignalsRun ==
    /\ pc = "idle"
    /\ \E batch \in RunBatches :
        \E r \in {SizeSignals(cfg, mgr, batch)} :
          /\ signals' = batch
          /\ sized' = r.sized
          /\ mgr' = r.mgr
    /\ verdict' = CanTrade(cfg, mgr).ok
    /\ pre' = mgr
    /\ pc' = "sized"
    /\ UNCHANGED cfg
    /\ UNCHANGED <<driverVars, otherVars>>

NextRun ==
    \/ CallSizeSignalsRun
    \/ RecordTrades

SpecRun == InitSizing /\ [][NextRun]_vars

\* C35: the amounts one SizeSignals call approves sum to at most the cash
\* Balance the portfolio held when it was called.
C35_BatchAffordable ==
    (Sized /\ sized # <<>>) => SumAmounts(sized) <= pre.portfolio.Balance

(***************************************************************************)
(* MarketMaking.Evaluate feeding Manager.SizeSignals: the signals of one   *)
(* market are sized and recorded, then the market's liquidity moves.       *)
(***************************************************************************)
\* a float64 field of strategy.Signal in the unit Pct reads, 1/PctDen,
\* rounded down
InPct(r) == (r[1] * PctDen) \div r[2]

\* the strategy.Signal as the risk manager reads it.  Confidence and
\* MarketProb are whole numbers of that unit here; Edge is only ever
\* compared with MinEdge, a whole number of it, and x < n exactly when
\* floor(x) < n
RiskSignal(s) ==
    Sig(s.MarketID, s.Outcome, InPct(s.Confidence),
        InPct(s.MarketProb), InPct(s.Edge))

RiskSignals(ss) == [i \in 1..Len(ss) |-> RiskSignal(ss[i])]

\* risk configurations with the edge threshold at, under and over the half
\* spreads MarketMaking emits
QuoteRiskConfigs ==
    [KellyFraction : {25, 100},
     MaxPositionPct : {5},
     MaxMarketExposurePct : {10},
     MaxTotalExposure : {50},
     MaxDrawdownPct : {20},
     MinBetAmount : {0, MoneyDen},
     MinEdge : {0, 2}]

\* the markets MarketMaking is given, their probabilities whole numbers of
\* the unit Pct reads
QuoteMarkets ==
    {[BinMarket("BINARY", FALSE, 0, 0, liq, 100, <<>>, 0, 60)
        EXCEPT !.Probability = Pct(prob)] :
        prob \in {10, 20, 35, 50, 80}, liq \in {600, 1500, 2500}}

InitQuote ==
    /\ ExecutionIdle /\ GatherIdle /\ LoopIdle /\ CacheIdle /\ ArbIdle
    /\ PortfolioIdle /\ EnrichIdle /\ LateIdle
    /\ replay = NewManager(NewPortfolio)
    /\ replaySized = <<>>
    /\ account = <<0, 0>>
    /\ ledger = NoBets
    /\ turn = "none"
    /\ cycle = 0
    /\ cfg \in QuoteRiskConfigs
    /\ mgr \in SizingManagers
    /\ pc = "idle"
    /\ signals = <<>>
    /\ sized = <<>>
    /\ verdict = "none"
    /\ pre = mgr
    /\ binMarket \in QuoteMarkets
    /\ binCfg \in MarketMakingConfigs
    /\ binNow = 0
    /\ binOut = <<>>
    /\ binPc = "given"

\* riskManager.SizeSignals on what MarketMaking.Evaluate returned
SizeQuotes ==
    /\ binPc = "evaluated"
    /\ pc = "idle"
    /\ \E r \in {SizeSignals(cfg, mgr, RiskSignals(binOut))} :
          /\ signals' = RiskSignals(binOut)
          /\ sized' = r.sized
          /\ mgr' = r.mgr
    /\ verdict' = CanTrade(cfg, mgr).ok
    /\ pre' = mgr
    /\ pc' = "sized"
    /\ UNCHANGED cfg
    /\ UNCHANGED <<driverVars, otherVars>>

\* the next cycle finds the market with another liquidity
LaterQuote ==
    /\ binPc = "evaluated"
    /\ pc = "recorded"
    /\ \E liq \in Liquidities :
         binMarket' = [binMarket EXCEPT !.TotalLiquidity = liq]
    /\ binOut' = <<>>
    /\ binPc' = "given"
    /\ pc' = "idle"
    /\ UNCHANGED <<cfg, mgr, signals, sized, verdict, pre>>
    /\ UNCHANGED <<binCfg, binNow>>
    /\ UNCHANGED <<driverVars, executionVars, gatherVars, loopVars,
                   cacheVars, arbVars, portfolioVars, enrichVars, lateVars>>

NextQuote ==
    \/ EvaluateMarketMaking
    \/ SizeQuotes
    \/ RecordTrades
    \/ LaterQuote

SpecQuote == InitQuote /\ [][NextQuote]_vars

\* the full Kelly fraction sizePosition computes for a signal
FullKelly(s) == KellyOf(NetOdds(SidePrice(s)), Pct(s.Confidence))

C37_ReplayLeavesLiveExposure ==
    [][turn = "replay" => ledger' = ledger]_vars

(***************************************************************************)
(* Runner.Run alone: one timestamp after another on a virtual portfolio.   *)
(***************************************************************************)
\* snapshot timestamps of a replay
MaxTimestamps == 2

\* what the strategies return at a timestamp: up to two signals
ReplayBatches ==
    UNION {[1..n -> {Sig("market-1", "YES", 90, 50, 40),
                     Sig("market-2", "YES", 90, 50, 40),
                     Sig("market-1", "NO", 40, 50, 10)}] : n \in 0..2}

InitReplay ==
    /\ ExecutionIdle
    /\ FarIdle
    /\ cfg \in RiskConfigs
    /\ mgr = NewManager(NewPortfolio)
    /\ pc = "none"
    /\ signals = <<>>
    /\ sized = <<>>
    /\ verdict = "none"
    /\ pre = mgr
    /\ account = <<0, 0>>
    /\ \E b \in StartBalances :
          replay = NewManager([Balance |-> b, InvestmentValue |-> 0,
                                TotalValue |-> b])
    /\ replaySized = <<>>
    /\ ledger = NoBets
    /\ turn = "replay"
    /\ cycle = 0
    /\ strategies = StrategiesOf({})
    /\ evals = <<>>
    /\ evaluated = <<>>
    /\ replaySignals = <<>>
    /\ replayEvaluated = <<>>

\* loadMarketsAtTimestamp fails: the timestamp is skipped
SkipTimestamp ==
    /\ cycle < MaxTimestamps
    /\ cycle' = cycle + 1
    /\ UNCHANGED <<cfg, mgr, pc, signals, sized, verdict, pre, account, turn,
                   replay, replaySized, ledger>>
    /\ UNCHANGED otherVars

\* one timestamp of Runner.Run whose strategies return some signals
RunTimestamp ==
    /\ cycle < MaxTimestamps
    /\ \E batch \in ReplayBatches :
          /\ ReplayTimestamp(batch)
          /\ replaySignals' = batch
    /\ cycle' = cycle + 1
    /\ UNCHANGED <<cfg, mgr, pc, signals, sized, verdict, pre, account, turn>>
    /\ UNCHANGED <<strategies, evals, evaluated, replayEvaluated>>
    /\ UNCHANGED <<executionVars, farVars>>

NextReplay == SkipTimestamp \/ RunTimestamp

SpecReplay == InitReplay /\ [][NextReplay]_vars

\* Runner.Run's virtual portfolio as constructed
StartPortfolio(p) ==
    /\ p.Balance \in StartBalances
    /\ p.TotalValue = p.Balance
    /\ p.InvestmentValue = 0

\* C38: the replay's portfolio stays as constructed; each timestamp's
\* SizeSignals is given total exposure 0 whatever was recorded before, so
\* after a timestamp the total exposure is what that timestamp recorded,
\* while each market's exposure grows by what was recorded for it.
C38_ReplayExposureResets ==
    [][/\ StartPortfolio(replay.portfolio)
       /\ replay'.portfolio = replay.portfolio
       /\ replaySignals' # replaySignals \/ replaySized' # replaySized \/ replay' # replay =>
            /\ Refresh(replay).totalExposure = 0
            /\ replaySized' =
                 SizeSignals(cfg, SetExposure(Refresh(replay), 0), replaySignals').sized
            /\ replay'.totalExposure = SumAmounts(replaySized')
            /\ \A k \in Markets :
                 replay'.marketExposure[k] =
                     replay.marketExposure[k]
                     + SumAmounts(SizedOn(replaySized', k))]_vars

\* a later timestamp sized and recorded trades after an earlier one had: the
\* market's exposure holds both, the total exposure the later ones only
C38_Witness ==
    /\ cycle >= 2
    /\ replaySized # <<>>
    /\ replay.totalExposure > 0
    /\ replay.marketExposure["market-1"] > replay.totalExposure

(***************************************************************************)
(* The skip state of the Executor.                                         *)
(***************************************************************************)
\* the failure key a PostBet request was built for
RequestKey(req) == <<req.ContractId, req.AnswerId>>

\* this step called PostBet
Posted == Len(posts') = Len(posts) + 1

\* this step was one executeSingle
Executed == Len(results') = Len(results) + 1

\* C39: a key whose failure counter is 3 or more keeps that counter for as
\* long as the Executor lives; no PostBet is called for it again; an
\* executeSingle on it is a skip, reported as a failed result; and a counter
\* gets there only by a permanent failure or a third transient one in a row.
C39_SkipIsAbsorbing ==
    [][\A k \in FailureKeys :
         /\ failedBets[k] >= SkipAfter =>
              /\ failedBets'[k] = failedBets[k]
              /\ Posted => RequestKey(posts'[Len(posts')].req) # k
              /\ (Executed /\ FailureKey(results'[Len(results')].Signal.Signal) = k) =>
                   /\ ~results'[Len(results')].Success
                   /\ results'[Len(results')].Error = {"skipped"}
                   /\ ~Posted
         /\ (failedBets[k] < SkipAfter /\ failedBets'[k] >= SkipAfter) =>
              /\ Posted
              /\ RequestKey(posts'[Len(posts')].req) = k
              /\ ~posts'[Len(posts')].ok
              /\ \/ failedBets'[k] = Blacklisted
                 \/ failedBets[k] = SkipAfter - 1 /\ keyHist'[k].fails = SkipAfter]_vars

\* a signal was skipped for a key that three transient failures in a row had
\* brought to the threshold, and for a key a permanent failure had blacklisted
C39_Witness ==
    /\ pc = "executing"
    /\ results # <<>>
    /\ results[Len(results)].Error = {"skipped"}
    /\ failedBets[FailureKey(results[Len(results)].Signal.Signal)] = SkipAfter
    /\ \E k \in FailureKeys : failedBets[k] = Blacklisted

(***************************************************************************)
(* Executor.Execute on sized signals of the generators: limit orders and   *)
(* plain ones, one Execute call after another.                             *)
(***************************************************************************)
\* a binary market a year old that closes today, a deadline in its question
AgedMarket(prob) ==
    [BinMarket("BINARY", FALSE, 0, 200, 2500, 100,
               <<"by", "end", "of", "2026">>, 0, 100)
       EXCEPT !.Probability = prob]

\* the TimeDecay and MarketMaking configurations with every threshold at zero
OpenTimeDecay ==
    [MinTimeElapsedFraction |-> Hundredths(0), MinEdge |-> Hundredths(0),
     MinVolume |-> 0]

OpenMarketMaking ==
    [BaseSpread |-> Hundredths(0), MinLiquidity |-> 0, MinVolume24h |-> 0]

\* signals of TimeDecay on markets at 0.6%, 40% and 41%, of MarketMaking on
\* a market at 50% closing in 60 days, and one that is no limit order
PlacementSignals ==
    {TimeDecayEvaluate(OpenTimeDecay, AgedMarket(Rat(6, 1000)), 100)[1],
     TimeDecayEvaluate(OpenTimeDecay, AgedMarket(Hundredths(40)), 100)[1],
     TimeDecayEvaluate(OpenTimeDecay, AgedMarket(Hundredths(41)), 100)[1],
     MarketMakingEvaluate(OpenMarketMaking, AgedMarket(Hundredths(50)), 40)[1],
     MarketMakingEvaluate(OpenMarketMaking, AgedMarket(Hundredths(50)), 40)[2],
     OnAnswer(Sig("market-1", "YES", 90, 50, 40), "")}

PlacementOrders == {[Signal |-> g, Amount |-> MoneyDen] : g \in PlacementSignals}

PlacementBatches == UNION {[1..n -> PlacementOrders] : n \in 1..MaxOrders}

PlacementKeys == {FailureKey(g) : g \in PlacementSignals}

PlacementSides == {SideKey(g) : g \in PlacementSignals}

InitPlacement ==
    /\ GatherIdle
    /\ FarIdle
    /\ cfg = DefaultRiskConfig
    /\ mgr = NewManager(NewPortfolio)
    /\ pc = "executing"
    /\ signals = <<>>
    /\ sized \in PlacementBatches
    /\ verdict = "none"
    /\ pre = mgr
    /\ replay = NewManager(NewPortfolio)
    /\ replaySized = <<>>
    /\ account = <<0, 0>>
    /\ ledger = NoBets
    /\ turn = "none"
    /\ cycle = 0
    /\ failedBets = [k \in PlacementKeys |-> 0]
    /\ results = <<>>
    /\ posts = <<>>
    /\ recorded = <<>>
    /\ keyHist = [k \in PlacementKeys |-> NoHistory]
    /\ sideHist = [k \in PlacementSides |-> NoHistory]

\* Execute has returned and is called again with the next sized signals
ExecuteAgain ==
    /\ pc = "executing"
    /\ Len(results) = Len(sized)
    /\ sized' \in PlacementBatches
    /\ results' = <<>>
    /\ posts' = <<>>
    /\ UNCHANGED <<cfg, mgr, pc, signals, verdict, pre, recorded, driverVars,
                   failedBets, keyHist, sideHist, gatherVars, farVars>>

NextPlacement == ExecuteSingle \/ ExecuteAgain

SpecPlacement == InitPlacement /\ [][NextPlacement]_vars

\* the sized signal the i-th PostBet of this Execute call was made for
RECURSIVE PostedFor(_, _)
PostedFor(i, n) ==
    IF results[n].Error = {"skipped"} THEN PostedFor(i, n + 1)
    ELSE IF i = 1 THEN results[n].Signal
    ELSE PostedFor(i - 1, n + 1)

\* C40: every request PostBet is given for a sized signal flagged as a limit
\* order carries a limit probability, the signal's limit target rounded to
\* two decimals.
C40_LimitOrdersCarryLimit ==
    \A i \in 1..Len(posts) :
        LET s == PostedFor(i, 1)
        IN  s.Signal.IsLimitOrder =>
              posts[i].req.LimitProb = <<RoundHundredths(s.Signal.LimitProb)>>

====
